---- MODULE Spec2Model ----
(***************************************************************************)
(* A model of the SerialTerminal core:                                     *)
(*   - SerialReceiver (src/serial_comm/receiver.py): the receive loop      *)
(*     thread, start() and stop() on the caller's thread, statement by     *)
(*     statement, so that every interleaving of the two threads is a       *)
(*     behaviour of Spec;                                                  *)
(*   - SerialConnection (src/serial_comm/connection.py): the connected     *)
(*     flag and read();                                                    *)
(*   - ReceiveSequence and SequenceHandler (src/sequence_handler.py): the  *)
(*     compilation of a receive pattern, matches(), check_data(),          *)
(*     toggle_sequence(), load_sequences() and get_response_bytes();       *)
(*   - the timeout of SerialReceiver: _calculate_timeout, set_baud_rate    *)
(*     and set_timeout;                                                    *)
(*   - TUIApp (src/ui/app.py): _on_frame_received and the response of a    *)
(*     matched sequence, at once or on a timer.                            *)
(* Bytes read from the connection are numbered 1, 2, 3, ... in the order   *)
(* read() returns them, so that a byte can be followed from read() to the  *)
(* Message that carries it.  Time is a discrete clock.                     *)
(***************************************************************************)
EXTENDS Integers, Sequences, FiniteSets, TLC

\* ------------------------------------------------------------------ bounds
MaxBytes == 2
MaxTime == 3
MaxTimeout == 1
MaxStops == 2

VARIABLES
    \* SerialReceiver fields
    running,            \* self.running
    buffer,             \* self.buffer (sequence of byte numbers)
    last_receive_time,  \* self.last_receive_time (0 is the code's "none")
    message_timeout,    \* self.message_timeout
    \* SerialConnection field
    connected,          \* self.connection.connected
    \* the two threads: th.loop is the receive loop thread, th.main the
    \* caller's thread (start/stop/connect/disconnect); pc and locals
    th,
    \* the environment
    now,                \* time.time()
    nread,              \* how many bytes read() has returned so far
    \* history (never read by the program)
    delivered,          \* the Messages the callback was called with, in order
    last_arrival,       \* the time read() last returned bytes
    stamp,              \* stamp[k]: the arrival time the loop recorded for byte k
    hist                \* facts about the stop() calls

rxvars == <<running, buffer, last_receive_time, message_timeout, connected,
            th, now, nread, delivered, last_arrival, stamp, hist>>

\* SequenceHandler and ReceiveSequence (src/sequence_handler.py)
VARIABLES
    sequences,          \* SequenceHandler.sequences
    checked,            \* the last check_data call: its data and its result
    tog,                \* history: the last toggle_sequence call
    ld,                 \* history: the last load_sequences call
    seq,                \* one ReceiveSequence, for the claims about patterns
    result              \* the last matches() call on seq: its data and result

seqvars == <<sequences, checked, tog, ld>>

patvars == <<seq, result>>

\* The timeout of SerialReceiver (src/serial_comm/receiver.py, lines 41-104)
VARIABLES
    auto_timeout,       \* self.auto_timeout
    baud_rate,          \* self.baud_rate (0 is the code's None)
    calc,               \* history: the last two _calculate_timeout calls
    tmcall              \* history: the last call that set the timeout

tmvars == <<auto_timeout, baud_rate, calc, tmcall>>

\* The response dispatch of TUIApp (src/ui/app.py, lines 525-555)
VARIABLES
    timers,             \* the timers set_timer has scheduled, not yet fired
    written,            \* the serial_conn.write calls, in order
    handled             \* history: the frames _on_frame_received handled

appvars == <<timers, written, handled>>

\* The error paths of the receiver, the serial port and the application's
\* thread, and a load and a check in progress
VARIABLES
    errs,               \* history: the exceptions of read() and of the callback
    port,               \* the serial port: the bytes waiting, the bytes fed
    ui,                 \* the application's thread: pc, the call it was handed
    rl                  \* a load_sequences and a check_data call in progress

auxvars == <<errs, port, ui, rl>>

vars == <<rxvars, seqvars, patvars, tmvars, appvars, auxvars>>

Threads == {"loop", "main"}

\* A thread's locals: pc, current_time (line 166), message (line 141),
\* data (line 178), and ret, where _send_buffered_message returns to.
\* A local is set back to its initial value after its last use.
Local(pc) == [pc |-> pc, current_time |-> 0, message |-> <<>>, data |-> <<>>,
              ret |-> "none"]

ThreadAlive == th.loop.pc \notin {"none", "ended"}

InStop == th.main.pc # "idle"

\* ------------------------------------------------------------ construction
\* SerialReceiver.__init__ with an explicit message_timeout, on a fresh
\* SerialConnection (connected = False).
InitRx ==
    /\ running = FALSE
    /\ buffer = <<>>
    /\ last_receive_time = 0
    /\ message_timeout \in 1..MaxTimeout
    /\ connected = FALSE
    /\ th = [loop |-> Local("none"), main |-> Local("idle")]
    /\ now = 1
    /\ nread = 0
    /\ delivered = <<>>
    /\ last_arrival = 0
    /\ stamp = [k \in 1..MaxBytes |-> 0]
    /\ hist = [stops |-> 0, buf |-> <<>>, sent |-> <<>>,
               interfered |-> FALSE, rx |-> FALSE, norx |-> FALSE]

\* ------------------------------------------------------------- environment
Tick ==
    /\ now < MaxTime
    /\ now' = now + 1
    /\ UNCHANGED <<auxvars, seqvars, patvars, tmvars, appvars,
                   running, buffer, last_receive_time, message_timeout, connected,
                   th, nread, delivered, last_arrival, stamp, hist>>

\* SerialConnection.connect succeeding / disconnect, on the caller's thread.
Connect ==
    /\ th.main.pc = "idle"
    /\ ~connected
    /\ connected' = TRUE
    /\ UNCHANGED <<auxvars, seqvars, patvars, tmvars, appvars,
                   running, buffer, last_receive_time, message_timeout,
                   th, now, nread, delivered, last_arrival, stamp, hist>>

Disconnect ==
    /\ th.main.pc = "idle"
    /\ connected
    /\ connected' = FALSE
    /\ UNCHANGED <<auxvars, seqvars, patvars, tmvars, appvars,
                   running, buffer, last_receive_time, message_timeout,
                   th, now, nread, delivered, last_arrival, stamp, hist>>

\* ------------------------------------------------------------------ start()
\* lines 108-118: if not self.running: running = True, buffer.clear(),
\* last_receive_time = 0.0, thread.start().
\* One run of the receiver is modelled (self.thread is None before it): a
\* start() after a stop() resets the buffer and last_receive_time, and the
\* run it begins is like the first.
Start ==
    /\ th.main.pc = "idle"
    /\ ~running
    /\ th.loop.pc = "none"
    /\ running' = TRUE
    /\ buffer' = <<>>
    /\ last_receive_time' = 0
    /\ th' = [th EXCEPT !.loop = Local("while")]
    /\ UNCHANGED <<auxvars, seqvars, patvars, tmvars, appvars,
                   message_timeout, connected, now, nread, delivered,
                   last_arrival, stamp, hist>>

\* ------------------------------------------------- _send_buffered_message()
\* Called by the loop (line 174) and by stop() (line 129); t is the thread.
\* line 140: if self.buffer
SendIf(t) ==
    /\ th[t].pc = "s_if"
    /\ th' = [th EXCEPT ![t].pc = IF buffer # <<>> THEN "s_copy" ELSE th[t].ret]
    /\ UNCHANGED <<auxvars, seqvars, patvars, tmvars, appvars,
                   running, buffer, last_receive_time, message_timeout, connected,
                   now, nread, delivered, last_arrival, stamp, hist>>

\* line 141: message = bytes(self.buffer)
SendCopy(t) ==
    /\ th[t].pc = "s_copy"
    /\ th' = [th EXCEPT ![t].pc = "s_cb", ![t].message = buffer]
    /\ UNCHANGED <<auxvars, seqvars, patvars, tmvars, appvars,
                   running, buffer, last_receive_time, message_timeout, connected,
                   now, nread, delivered, last_arrival, stamp, hist>>

\* line 144: self.on_frame(message); an exception of the callback is caught
\* (lines 146-149) and the routine goes on either way.
SendCallback(t) ==
    /\ th[t].pc = "s_cb"
    /\ delivered' = Append(delivered, th[t].message)
    /\ th' = [th EXCEPT ![t].pc = "s_clear", ![t].message = <<>>]
    /\ hist' = IF t = "main"
               THEN [hist EXCEPT !.sent = Append(hist.sent, th[t].message)]
               ELSE hist
    /\ UNCHANGED <<auxvars, seqvars, patvars, tmvars, appvars,
                   running, buffer, last_receive_time, message_timeout, connected,
                   now, nread, last_arrival, stamp>>

\* line 151: self.buffer.clear()
SendClear(t) ==
    /\ th[t].pc = "s_clear"
    /\ buffer' = <<>>
    /\ th' = [th EXCEPT ![t].pc = "s_lrt"]
    /\ hist' = IF t = "loop" /\ InStop /\ buffer # <<>>
               THEN [hist EXCEPT !.interfered = TRUE]
               ELSE hist
    /\ UNCHANGED <<auxvars, seqvars, patvars, tmvars, appvars,
                   running, last_receive_time, message_timeout, connected,
                   now, nread, delivered, last_arrival, stamp>>

\* line 152: self.last_receive_time = 0.0
SendReset(t) ==
    /\ th[t].pc = "s_lrt"
    /\ last_receive_time' = 0
    /\ th' = [th EXCEPT ![t].pc = th[t].ret]
    /\ UNCHANGED <<auxvars, seqvars, patvars, tmvars, appvars,
                   running, buffer, message_timeout, connected,
                   now, nread, delivered, last_arrival, stamp, hist>>

\* ------------------------------------------------------------ _receive_loop()
\* A variant of line 160 that does not test self.running (while True).
LoopWhile_Forever ==
    /\ th.loop.pc = "while"
    /\ th' = [th EXCEPT !.loop.pc = "conn"]
    /\ UNCHANGED <<auxvars, seqvars, patvars, tmvars, appvars,
                   running, buffer, last_receive_time, message_timeout, connected,
                   now, nread, delivered, last_arrival, stamp, hist>>

\* line 160: while self.running
LoopWhile ==
    /\ th.loop.pc = "while"
    /\ th' = [th EXCEPT !.loop.pc = IF running THEN "conn" ELSE "ended"]
    /\ UNCHANGED <<auxvars, seqvars, patvars, tmvars, appvars,
                   running, buffer, last_receive_time, message_timeout, connected,
                   now, nread, delivered, last_arrival, stamp, hist>>

\* lines 162-164: if not self.connection.connected: break
LoopConn ==
    /\ th.loop.pc = "conn"
    /\ th' = [th EXCEPT !.loop.pc = IF connected THEN "time" ELSE "ended"]
    /\ UNCHANGED <<auxvars, seqvars, patvars, tmvars, appvars,
                   running, buffer, last_receive_time, message_timeout, connected,
                   now, nread, delivered, last_arrival, stamp, hist>>

\* line 166: current_time = time.time()
LoopTime ==
    /\ th.loop.pc = "time"
    /\ th' = [th EXCEPT !.loop.pc = "chk", !.loop.current_time = now]
    /\ UNCHANGED <<auxvars, seqvars, patvars, tmvars, appvars,
                   running, buffer, last_receive_time, message_timeout, connected,
                   now, nread, delivered, last_arrival, stamp, hist>>

\* line 169: if self.buffer and self.last_receive_time > 0
LoopCheck ==
    /\ th.loop.pc = "chk"
    /\ th' = [th EXCEPT !.loop.pc =
                 IF buffer # <<>> /\ last_receive_time > 0 THEN "tsl" ELSE "read"]
    /\ UNCHANGED <<auxvars, seqvars, patvars, tmvars, appvars,
                   running, buffer, last_receive_time, message_timeout, connected,
                   now, nread, delivered, last_arrival, stamp, hist>>

\* A variant of the timeout test of line 172 with > in place of >=.
TimedOut_Strict(current_time) ==
    current_time - last_receive_time > message_timeout

\* lines 170-174: time_since_last = current_time - self.last_receive_time;
\* if time_since_last >= self.message_timeout: self._send_buffered_message()
TimedOut(current_time) ==
    current_time - last_receive_time >= message_timeout

LoopTimeout ==
    /\ th.loop.pc = "tsl"
    /\ th' = [th EXCEPT !.loop.pc = IF TimedOut(th.loop.current_time)
                                    THEN "s_if" ELSE "read",
                        !.loop.ret = "read"]
    /\ UNCHANGED <<auxvars, seqvars, patvars, tmvars, appvars,
                   running, buffer, last_receive_time, message_timeout, connected,
                   now, nread, delivered, last_arrival, stamp, hist>>

\* line 178: data = self.connection.read()  (connection.py lines 54-87)
\* read() returns b'' when not connected or when nothing is waiting, else the
\* bytes waiting: here the next byte of the stream.
\* lines 188-196: without data the loop sleeps and goes round.
LoopRead ==
    /\ th.loop.pc = "read"
    /\ \/ /\ connected
          /\ nread < MaxBytes
          /\ nread' = nread + 1
          /\ last_arrival' = now
          /\ th' = [th EXCEPT !.loop.pc = "ext", !.loop.data = <<nread + 1>>]
          /\ hist' = [hist EXCEPT !.rx = TRUE]
       \/ /\ th' = [th EXCEPT !.loop.pc = "while", !.loop.current_time = 0]
          /\ UNCHANGED <<nread, last_arrival, hist>>
    /\ UNCHANGED <<auxvars, seqvars, patvars, tmvars, appvars,
                   running, buffer, last_receive_time, message_timeout, connected,
                   now, delivered, stamp>>

\* line 185: self.buffer.extend(data)
LoopExtend ==
    /\ th.loop.pc = "ext"
    /\ buffer' = buffer \o th.loop.data
    /\ stamp' = [k \in 1..MaxBytes |->
                   IF k = th.loop.data[1] THEN th.loop.current_time ELSE stamp[k]]
    /\ th' = [th EXCEPT !.loop.pc = "lrt", !.loop.data = <<>>]
    /\ hist' = [hist EXCEPT !.rx = TRUE,
                            !.interfered = IF InStop THEN TRUE ELSE @]
    /\ UNCHANGED <<auxvars, seqvars, patvars, tmvars, appvars,
                   running, last_receive_time, message_timeout, connected,
                   now, nread, delivered, last_arrival>>

\* A variant of line 186 that does not record the arrival time.
LoopStamp_NoRecord ==
    /\ th.loop.pc = "lrt"
    /\ th' = [th EXCEPT !.loop.pc = "while", !.loop.current_time = 0]
    /\ UNCHANGED <<auxvars, seqvars, patvars, tmvars, appvars,
                   running, buffer, last_receive_time,
                   message_timeout, connected, now, nread, delivered,
                   last_arrival, stamp, hist>>

\* line 186: self.last_receive_time = current_time
LoopStamp ==
    /\ th.loop.pc = "lrt"
    /\ last_receive_time' = th.loop.current_time
    /\ th' = [th EXCEPT !.loop.pc = "while", !.loop.current_time = 0]
    /\ UNCHANGED <<auxvars, seqvars, patvars, tmvars, appvars,
                   running, buffer, message_timeout, connected,
                   now, nread, delivered, last_arrival, stamp, hist>>

\* ------------------------------------------------------------------- stop()
\* line 124: self.running = False
StopRun ==
    /\ th.main.pc = "idle"
    /\ hist.stops < MaxStops
    /\ running' = FALSE
    /\ th' = [th EXCEPT !.main.pc = "t_if"]
    /\ hist' = [hist EXCEPT !.stops = @ + 1, !.buf = buffer, !.sent = <<>>,
                            !.interfered = FALSE,
                            !.norx = (hist.stops >= 1 /\ ~hist.rx),
                            !.rx = FALSE]
    /\ UNCHANGED <<auxvars, seqvars, patvars, tmvars, appvars,
                   buffer, last_receive_time, message_timeout, connected,
                   now, nread, delivered, last_arrival, stamp>>

\* A variant of lines 127-129 that flushes only a buffer that has timed out.
StopIf_OnSilence ==
    /\ th.main.pc = "t_if"
    /\ th' = [th EXCEPT !.main.pc = IF buffer # <<>> /\ TimedOut(now)
                                    THEN "s_if" ELSE "join",
                        !.main.ret = "join"]
    /\ UNCHANGED <<auxvars, seqvars, patvars, tmvars, appvars,
                   running, buffer, last_receive_time,
                   message_timeout, connected, now, nread, delivered,
                   last_arrival, stamp, hist>>

\* lines 127-129: if self.buffer: self._send_buffered_message()
StopIf ==
    /\ th.main.pc = "t_if"
    /\ th' = [th EXCEPT !.main.pc = IF buffer # <<>> THEN "s_if" ELSE "join",
                        !.main.ret = "join"]
    /\ UNCHANGED <<auxvars, seqvars, patvars, tmvars, appvars,
                   running, buffer, last_receive_time, message_timeout, connected,
                   now, nread, delivered, last_arrival, stamp, hist>>

\* lines 131-136: if self.thread: self.thread.join(timeout=2)
\* join returns when the loop thread has ended, or when its 2 s have passed
\* with the loop still alive.
StopJoin ==
    /\ th.main.pc = "join"
    /\ th' = [th EXCEPT !.main.pc = "idle"]
    /\ UNCHANGED <<auxvars, seqvars, patvars, tmvars, appvars,
                   running, buffer, last_receive_time, message_timeout, connected,
                   now, nread, delivered, last_arrival, stamp, hist>>

\* ------------------------------------------------------------ specification
LoopStep ==
    \/ LoopWhile \/ LoopConn \/ LoopTime \/ LoopCheck \/ LoopTimeout
    \/ LoopRead \/ LoopExtend \/ LoopStamp
    \/ SendIf("loop") \/ SendCopy("loop") \/ SendCallback("loop")
    \/ SendClear("loop") \/ SendReset("loop")

MainStep ==
    \/ Connect \/ Disconnect \/ Start
    \/ StopRun \/ StopIf \/ StopJoin
    \/ SendIf("main") \/ SendCopy("main") \/ SendCallback("main")
    \/ SendClear("main") \/ SendReset("main")

\* No handler and no sequence: the receiver's specification leaves them alone.
NoSeq ==
    /\ sequences = <<>>
    /\ checked = [called |-> FALSE]
    /\ tog = [called |-> FALSE]
    /\ ld = [n |-> 0]

NoPat ==
    /\ seq = [none |-> TRUE]
    /\ result = [called |-> FALSE]

\* No call on the timeout: it stays the one given at construction.
NoTm ==
    /\ auto_timeout = FALSE
    /\ baud_rate = 0
    /\ calc = [n |-> 0]
    /\ tmcall = [op |-> "none"]

\* No frame handled by the application.
NoApp ==
    /\ timers = {}
    /\ written = <<>>
    /\ handled = <<>>

\* No exception raised, nothing fed to the port, the application's thread
\* idle, no load and no check in progress.
NoAux ==
    /\ errs = [read |-> 0, callback |-> <<>>]
    /\ port = [waiting |-> <<>>, fed |-> 0, at |-> 0]
    /\ ui = [pc |-> "idle", call |-> <<>>, m |-> 0]
    /\ rl = [load |-> [pc |-> "idle", todo |-> <<>>], chk |-> [pc |-> "idle"]]

Init == InitRx /\ NoSeq /\ NoPat /\ NoTm /\ NoApp /\ NoAux

Next == LoopStep \/ MainStep \/ Tick

Spec == Init /\ [][Next]_vars

\* The receive loop is scheduled fairly and time advances.
FairSpec == Spec /\ WF_vars(LoopStep) /\ WF_vars(Tick)

\* ------------------------------------------------------------------ claims
Range(q) == {q[i] : i \in 1..Len(q)}

\* Byte k is in the i-th Message delivered.
InMessage(k, i) == k \in Range(delivered[i])

Delivered(k) == \E i \in 1..Len(delivered) : InMessage(k, i)

StopReturned == hist.stops >= 1 /\ th.main.pc = "idle"

\* C1: once stop() has returned and the loop has exited, every byte read()
\* returned to the loop is in some delivered Message and none is left in the
\* buffer.
C1_NoByteDropped ==
    (StopReturned /\ th.loop.pc = "ended")
        => /\ buffer = <<>>
           /\ \A k \in 1..nread : Delivered(k)

\* C2: a stop() called with a non-empty buffer, during which the loop does
\* not change the buffer, delivers exactly one Message, and its bytes are
\* the bytes that were in the buffer; no silence is needed for it.
C2_StopFlushesBuffer ==
    (StopReturned /\ hist.buf # <<>> /\ ~hist.interfered)
        => hist.sent = <<hist.buf>>

\* C2's case: the stop() was called with the most recent byte in the buffer
\* and delivered the buffer, and even at its return no time has elapsed since
\* that byte arrived.
C2_Witness ==
    /\ StopReturned /\ hist.buf # <<>> /\ ~hist.interfered
    /\ hist.buf[Len(hist.buf)] = nread /\ last_arrival = now
    /\ hist.sent = <<hist.buf>>

\* C3: no byte is delivered in more than one Message, and a further stop()
\* with no bytes received since the previous stop() delivers no Message.
C3_StopIdempotent ==
    /\ \A k \in 1..nread :
          Cardinality({i \in 1..Len(delivered) : InMessage(k, i)}) <= 1
    /\ (StopReturned /\ hist.norx) => hist.sent = <<>>

\* C4: the loop never emits the buffer while less than the timeout has
\* elapsed since the most recent byte actually arrived.
C4_NoEarlyEmit ==
    (th.loop.pc = "s_cb") => (now - last_arrival >= message_timeout)

\* Bytes k-1 and k were both appended, and the loop recorded arrival times
\* for them that are at least the timeout apart.
GapBefore(k) ==
    /\ stamp[k] > 0 /\ stamp[k - 1] > 0
    /\ stamp[k] - stamp[k - 1] >= message_timeout

ClockOut == last_receive_time + message_timeout > MaxTime

MaxUnits == 3
MaxMsgLen == 3
MaxSeqs == 2

\* ------------------------------------------------------------- int(), split
HexChars == <<"0", "1", "2", "3", "4", "5", "6", "7", "8", "9",
              "A", "B", "C", "D", "E", "F">>

IsDigit(c, base) == \E v \in 0..(base - 1) : HexChars[v + 1] = c

DigitValue(c) == CHOOSE v \in 0..15 : HexChars[v + 1] = c

RECURSIVE NumberOf(_, _)
NumberOf(part, base) ==
    IF part = <<>> THEN 0
    ELSE NumberOf(SubSeq(part, 1, Len(part) - 1), base) * base
             + DigitValue(part[Len(part)])

\* int(part, base); -1 stands for its ValueError.
ParseInt(part, base) ==
    IF part # <<>> /\ \A i \in 1..Len(part) : IsDigit(part[i], base)
    THEN NumberOf(part, base)
    ELSE -1

\* The length of the run of non-space characters text starts with.
RECURSIVE RunLength(_)
RunLength(text) ==
    IF text = <<>> \/ text[1] = " " THEN 0 ELSE 1 + RunLength(Tail(text))

\* str.split(): the maximal runs of non-space characters, in order.
RECURSIVE Split(_)
Split(text) ==
    IF text = <<>> THEN <<>>
    ELSE IF text[1] = " " THEN Split(Tail(text))
    ELSE LET n == RunLength(text)
         IN  <<SubSeq(text, 1, n)>> \o Split(SubSeq(text, n + 1, Len(text)))

\* ------------------------------------------------- the compiled regex (re)
\* A compiled pattern is a sequence of items, each matching one byte:
\*   lit: the escaped byte val;  any: the class [\x00-\xFF];
\*   dot: "." (any byte but the line feed);  opt: the item is followed by "?".
Lit(v) == [kind |-> "lit", val |-> v, opt |-> FALSE]

AnyByte == [kind |-> "any", val |-> 0, opt |-> FALSE]

Dot == [kind |-> "dot", val |-> 0, opt |-> FALSE]

Bad == [kind |-> "error", val |-> 0, opt |-> FALSE]

\* _compile_pattern returning None (lines 88-90).
None == [ok |-> FALSE, items |-> <<>>]

\* re.compile of the joined parts; an exception raised for any part is
\* caught at line 88.
Compiled(items) ==
    IF \E i \in 1..Len(items) : items[i].kind = "error"
    THEN None
    ELSE [ok |-> TRUE, items |-> items]

Accepts(item, b) ==
    CASE item.kind = "lit" -> b = item.val
      [] item.kind = "any" -> TRUE
      [] item.kind = "dot" -> b # 10
      [] OTHER -> FALSE

\* The items from the i-th on match data from position p on.
RECURSIVE MatchHere(_, _, _, _)
MatchHere(items, i, data, p) ==
    IF i > Len(items) THEN TRUE
    ELSE \/ items[i].opt /\ MatchHere(items, i + 1, data, p)
         \/ /\ p <= Len(data)
            /\ Accepts(items[i], data[p])
            /\ MatchHere(items, i + 1, data, p + 1)

\* pattern.search(data) is not None
Search(items, data) ==
    \E p \in 1..(Len(data) + 1) : MatchHere(items, 1, data, p)

\* A variant of lines 43-45 that writes the wildcard as "." (no line feed).
ByteUnit_Dot(part, base) ==
    IF part = <<"?", "?">> THEN Dot
    ELSE LET v == ParseInt(part, base)
         IN  IF v \in 0..255 THEN Lit(v) ELSE Bad

\* ------------------------------------------------------- _compile_pattern
\* lines 43-49 and 63-67: "??" is the class, anything else int(part, base)
\* and bytes([byte_val]), which raises outside 0..255.
ByteUnit(part, base) ==
    IF part = <<"?", "?">> THEN AnyByte
    ELSE LET v == ParseInt(part, base)
         IN  IF v \in 0..255 THEN Lit(v) ELSE Bad

\* lines 36-52
CompileHex(text) ==
    LET parts == Split(text)
    IN  Compiled([i \in 1..Len(parts) |-> ByteUnit(parts[i], 16)])

\* lines 59-70
CompileDecimal(text) ==
    LET parts == Split(text)
    IN  Compiled([i \in 1..Len(parts) |-> ByteUnit(parts[i], 10)])

NotSpace(c) == c # " "

\* lines 79-83
BinaryUnit(chunk) ==
    IF chunk = <<"?", "?", "?", "?", "?", "?", "?", "?">> THEN AnyByte
    ELSE LET v == ParseInt(chunk, 2)
         IN  IF v \in 0..255 THEN Lit(v) ELSE Bad

\* lines 72-86: range(0, len(bin_str), 8), chunk = bin_str[i:i+8]
CompileBinary(text) ==
    LET bin_str == SelectSeq(text, NotSpace)
        n == (Len(bin_str) + 7) \div 8
        chunk(i) == SubSeq(bin_str, 8 * (i - 1) + 1,
                           IF 8 * i < Len(bin_str) THEN 8 * i ELSE Len(bin_str))
    IN  Compiled([i \in 1..n |-> BinaryUnit(chunk(i))])

\* str.replace("??", "."): left to right, without overlap.
RECURSIVE ReplaceWildcards(_)
ReplaceWildcards(text) ==
    IF text = <<>> THEN <<>>
    ELSE IF Len(text) >= 2 /\ text[1] = "?" /\ text[2] = "?"
         THEN <<".">> \o ReplaceWildcards(SubSeq(text, 3, Len(text)))
         ELSE <<text[1]>> \o ReplaceWildcards(Tail(text))

\* ord() of the characters an ascii text of the model is written with.
Ord(c) ==
    CASE c = " " -> 32
      [] c = "." -> 46
      [] c = "?" -> 63
      [] c = "G" -> 71
      [] c = "I" -> 73
      [] c = "P" -> 80
      [] c = "x" -> 120
      [] c = "é" -> 233
      [] IsDigit(c, 10) -> 48 + DigitValue(c)
      [] OTHER -> 55 + DigitValue(c)

\* re.compile of a text taken as a regular expression: "." is the dot, "?"
\* makes the item before it optional (an error with no item before it), the
\* other characters of the model's texts stand for themselves.  After the
\* replace of line 56 no "?" follows another.
RECURSIVE RegexItems(_, _)
RegexItems(text, acc) ==
    IF text = <<>> THEN acc
    ELSE LET c == text[1]
             n == Len(acc)
         IN  IF c = "?"
             THEN IF n = 0 \/ acc[n].kind = "error"
                  THEN RegexItems(Tail(text), Append(acc, Bad))
                  ELSE RegexItems(Tail(text), [acc EXCEPT ![n].opt = TRUE])
             ELSE IF c = "."
             THEN RegexItems(Tail(text), Append(acc, Dot))
             ELSE RegexItems(Tail(text), Append(acc, Lit(Ord(c))))

\* lines 54-57
CompileAscii(text) == Compiled(RegexItems(ReplaceWildcards(text), <<>>))

\* lines 30-90; a format that is none of the four falls through: None.
compile_pattern(receive_data, receive_format) ==
    CASE receive_format = "hex" -> CompileHex(receive_data)
      [] receive_format = "ascii" -> CompileAscii(receive_data)
      [] receive_format = "decimal" -> CompileDecimal(receive_data)
      [] receive_format = "binary" -> CompileBinary(receive_data)
      [] OTHER -> None

\* ------------------------------------------------------- ReceiveSequence
\* dict.get(key, default)
Get(config, key, default) ==
    IF key \in DOMAIN config THEN config[key] ELSE default

\* A number and a string as the value of a key of a record.
Num(n) == [num |-> TRUE, val |-> n]

Str == [num |-> FALSE, val |-> 0]

\* line 14: config.get('delay', 0) / 1000.0 raises TypeError on a string;
\* the other lines of __init__ do not raise on a mapping.
Raises(config) == ~Get(config, "delay", Num(0)).num

\* __init__, lines 11-28.  delay is kept in the units of the record.
ReceiveSequence(config) ==
    LET receive_cfg == Get(config, "receive", [x \in {} |-> <<>>])
        send_cfg == Get(config, "send", [x \in {} |-> <<>>])
        receive_data == Get(receive_cfg, "data", <<>>)
        receive_format == Get(receive_cfg, "format", "hex")
    IN  [name |-> Get(config, "name", "Unnamed"),
         active |-> Get(config, "active", TRUE),
         delay |-> Get(config, "delay", Num(0)).val,
         comment |-> Get(config, "comment", <<>>),
         receive_data |-> receive_data,
         receive_format |-> receive_format,
         send_data |-> Get(send_cfg, "data", <<>>),
         send_format |-> Get(send_cfg, "format", "hex"),
         pattern |-> compile_pattern(receive_data, receive_format)]

\* lines 92-97
matches(self, data) ==
    IF ~self.active \/ ~self.pattern.ok
    THEN FALSE
    ELSE Search(self.pattern.items, data)

\* ------------------------------------------------------- SequenceHandler
\* The records before the first one whose ReceiveSequence raises: the
\* exception leaves the loop of lines 139-141 and is caught at line 145.
Loaded(configs) ==
    LET bad == {i \in 1..Len(configs) : Raises(configs[i])}
        n == IF bad = {} THEN Len(configs)
             ELSE (CHOOSE i \in bad : \A j \in bad : i <= j) - 1
    IN  SubSeq(configs, 1, n)

\* A variant of load_sequences without the clear() of line 129.
load_sequences_NoClear(self_sequences, configs) ==
    self_sequences
        \o [i \in 1..Len(Loaded(configs)) |-> ReceiveSequence(configs[i])]

\* lines 127-146: self.sequences.clear(), then one ReceiveSequence appended
\* per record, in the order of the records
load_sequences(self_sequences, configs) ==
    LET cleared == <<>>
    IN  cleared
            \o [i \in 1..Len(Loaded(configs)) |-> ReceiveSequence(configs[i])]

\* lines 152-160; the result is the index of the sequence returned, 0 for None
RECURSIVE CheckFrom(_, _, _)
CheckFrom(seqs, data, i) ==
    IF i > Len(seqs) THEN 0
    ELSE IF matches(seqs[i], data) THEN i
    ELSE CheckFrom(seqs, data, i + 1)

check_data(seqs, data) == CheckFrom(seqs, data, 1)

\* lines 166-171; the index of the sequence returned, 0 for None
RECURSIVE FindName(_, _, _)
FindName(seqs, name, i) ==
    IF i > Len(seqs) THEN 0
    ELSE IF seqs[i].name = name THEN i
    ELSE FindName(seqs, name, i + 1)

get_sequence_by_name(seqs, name) == FindName(seqs, name, 1)

\* A variant of line 177 that always sets the sequence inactive.
toggle_sequence_Off(seqs, name) ==
    LET i == get_sequence_by_name(seqs, name)
    IN  IF i # 0
        THEN [seqs |-> [seqs EXCEPT ![i].active = FALSE], ret |-> FALSE]
        ELSE [seqs |-> seqs, ret |-> FALSE]

\* A variant of lines 175-177 that flips every sequence of the name.
toggle_sequence_All(seqs, name) ==
    LET i == get_sequence_by_name(seqs, name)
    IN  IF i # 0
        THEN [seqs |-> [k \in 1..Len(seqs) |->
                          IF seqs[k].name = name
                          THEN [seqs[k] EXCEPT !.active = ~seqs[k].active]
                          ELSE seqs[k]],
              ret |-> ~seqs[i].active]
        ELSE [seqs |-> seqs, ret |-> FALSE]

\* A variant of line 177 that sets the delay back to zero as well.
toggle_sequence_Reset(seqs, name) ==
    LET i == get_sequence_by_name(seqs, name)
    IN  IF i # 0
        THEN [seqs |-> [seqs EXCEPT ![i].active = ~seqs[i].active,
                                    ![i].delay = 0],
              ret |-> ~seqs[i].active]
        ELSE [seqs |-> seqs, ret |-> FALSE]

\* lines 173-179: the sequences after the call, and what it returns
toggle_sequence(seqs, name) ==
    LET i == get_sequence_by_name(seqs, name)
    IN  IF i # 0
        THEN [seqs |-> [seqs EXCEPT ![i].active = ~seqs[i].active],
              ret |-> ~seqs[i].active]
        ELSE [seqs |-> seqs, ret |-> FALSE]

\* ------------------------------------------------ the handler's specification
\* The texts of the receive patterns of the handler's records.
TextAA == <<"A", "A">>

TextWild == <<"?", "?">>

TextGG == <<"G", "G">>

TextEmpty == <<>>

SeqPatterns ==
    {[data |-> t, format |-> "hex"] :
        t \in {TextAA, TextWild, TextGG, TextEmpty}}

SeqNames == {"a", "b"}

SeqConfigs ==
    [name : SeqNames, active : BOOLEAN, receive : SeqPatterns]

SeqMessages == {<<>>, <<170>>, <<187>>}

\* The instances load number n put in the collection: the k-th is <<n, k>>.
Instances(n, seqs) == [k \in 1..Len(seqs) |-> <<n, k>>]

\* ld after the load of __init__ (line 125).
FirstLoad(configs, seqs) ==
    [n |-> 1, configs |-> configs, ids |-> Instances(1, seqs),
     pre |-> <<>>, pre_ids |-> <<>>]

\* SequenceHandler.__init__: the sequences of a configuration of up to
\* MaxSeqs records.
InitSeq ==
    /\ \E n \in 0..MaxSeqs :
          \E configs \in [1..n -> SeqConfigs] :
              /\ sequences = load_sequences(<<>>, configs)
              /\ ld = FirstLoad(configs, sequences)
    /\ checked = [called |-> FALSE]
    /\ tog = [called |-> FALSE]

\* check_data(data); checked is the last call since the last toggle.
CheckData(data) ==
    /\ checked' = [called |-> TRUE, data |-> data,
                   result |-> check_data(sequences, data)]
    /\ UNCHANGED <<auxvars, sequences, tog, ld, rxvars, patvars, tmvars, appvars>>

\* toggle_sequence(name); tog keeps the call, the sequences before it (pre),
\* and the call before it (prev).
ToggleSequence(name) ==
    LET r == toggle_sequence(sequences, name)
    IN  /\ sequences' = r.seqs
        /\ tog' = [called |-> TRUE, name |-> name, ret |-> r.ret,
                   idx |-> get_sequence_by_name(sequences, name),
                   pre |-> sequences,
                   prev |-> IF tog.called
                            THEN [called |-> TRUE, name |-> tog.name,
                                  ret |-> tog.ret, pre |-> tog.pre]
                            ELSE [called |-> FALSE]]
        /\ checked' = [called |-> FALSE]
        /\ UNCHANGED <<auxvars, ld, rxvars, patvars, tmvars, appvars>>

NoRx ==
    /\ running = FALSE
    /\ buffer = <<>>
    /\ last_receive_time = 0
    /\ message_timeout = 1
    /\ connected = FALSE
    /\ th = [loop |-> Local("none"), main |-> Local("idle")]
    /\ now = 1
    /\ nread = 0
    /\ delivered = <<>>
    /\ last_arrival = 0
    /\ stamp = [k \in 1..MaxBytes |-> 0]
    /\ hist = [stops |-> 0, buf |-> <<>>, sent |-> <<>>,
               interfered |-> FALSE, rx |-> FALSE, norx |-> FALSE]

InitHandler == NoRx /\ InitSeq /\ NoPat /\ NoTm /\ NoApp /\ NoAux

NextSeq ==
    \/ \E data \in SeqMessages : CheckData(data)
    \/ \E name \in SeqNames \cup {"zz"} : ToggleSequence(name)

SpecSeq == InitHandler /\ [][NextSeq]_vars

\* ----------------------------------------------------- claims on the handler
\* The spec's valid pattern: compiled without error, with at least one unit.
ValidPattern(s) == s.pattern.ok /\ Len(s.pattern.items) >= 1

Eligible(s, data) ==
    s.active /\ ValidPattern(s) /\ Search(s.pattern.items, data)

\* The first sequence, in configuration order, that is active and whose
\* pattern is valid and matches data; 0 when there is none.
FirstEligible(seqs, data) ==
    LET S == {i \in 1..Len(seqs) : Eligible(seqs[i], data)}
    IN  IF S = {} THEN 0 ELSE CHOOSE i \in S : \A j \in S : i <= j

\* C7: check returns exactly the first sequence, in configuration order, that
\* is active and whose pattern is valid and matches the message, and none
\* when there is no such sequence; an inactive sequence and one with an
\* invalid pattern are never returned.
C7_FirstEligibleReturned ==
    checked.called
        => checked.result = FirstEligible(sequences, checked.data)

\* C8: after toggle(name) turned a sequence inactive, check does not return
\* it; after a second toggle(name) the sequence is active again and check
\* returns for every message what it returned before the first toggle.
C8_ToggleSkipsAndRestores ==
    /\ (tog.called /\ tog.idx # 0 /\ ~tog.ret /\ checked.called)
          => checked.result # tog.idx
    /\ (tog.called /\ tog.idx # 0 /\ tog.prev.called
            /\ tog.prev.name = tog.name /\ ~tog.prev.ret)
          => /\ tog.ret
             /\ sequences[tog.idx].active
             /\ \A m \in SeqMessages :
                   check_data(sequences, m) = check_data(tog.prev.pre, m)

\* C8's case: a sequence that check returned was toggled inactive and back,
\* and check returns it again for the same message.
C8_Witness ==
    /\ tog.called /\ tog.idx # 0 /\ tog.prev.called
    /\ tog.prev.name = tog.name /\ ~tog.prev.ret
    /\ checked.called /\ checked.result = tog.idx
    /\ check_data(tog.prev.pre, checked.data) = tog.idx
    /\ check_data(tog.pre, checked.data) # tog.idx

\* ---------------------------------------------- one pattern's specification
HexTokens == {<<"A", "A">>, <<"B", "B">>, <<"?", "?">>, <<"G", "G">>}

DecimalTokens ==
    {<<"1", "7", "0">>, <<"1", "8", "7">>, <<"?", "?">>, <<"2", "5", "6">>}

BinaryTokens ==
    {<<"1", "0", "1", "0", "1", "0", "1", "0">>,
     <<"1", "0", "1", "1", "1", "0", "1", "1">>,
     <<"?", "?", "?", "?", "?", "?", "?", "?">>,
     <<"1", "0", "1", "0">>}

AsciiTokens == {<<"P">>, <<"I">>, <<"?", "?">>, <<".">>}

Formats == {"hex", "ascii", "decimal", "binary"}

Tokens(format) ==
    CASE format = "hex" -> HexTokens
      [] format = "decimal" -> DecimalTokens
      [] format = "binary" -> BinaryTokens
      [] OTHER -> AsciiTokens

\* The tokens written one after the other: separated by a space in hex and
\* decimal, not separated in binary and ascii.
RECURSIVE Join(_, _)
Join(tokens, sep) ==
    IF tokens = <<>> THEN <<>>
    ELSE IF Len(tokens) = 1 THEN tokens[1]
    ELSE tokens[1] \o sep \o Join(Tail(tokens), sep)

Separator(format) ==
    IF format \in {"hex", "decimal"} THEN <<" ">> ELSE <<>>

\* The pattern texts of a format: up to MaxUnits tokens, and the texts of
\* spaces only.
Texts(format) ==
    {Join(ts, Separator(format)) :
        ts \in UNION {[1..n -> Tokens(format)] : n \in 0..MaxUnits}}
    \cup {<<" ">>, <<" ", " ">>}

\* The byte values of the messages a pattern of a format is tried on.
MessageBytes(format) ==
    IF format = "ascii" THEN {10, 73, 80} ELSE {1, 10, 170, 187, 255}

Messages(format) ==
    UNION {[1..n -> MessageBytes(format)] : n \in 0..MaxMsgLen}

\* ReceiveSequence({receive: {data, format}}): name, active and the rest are
\* the defaults.
InitPat ==
    /\ \E format \in Formats :
          \E text \in Texts(format) :
              seq = ReceiveSequence([receive |-> [data |-> text, format |-> format]])
    /\ result = [called |-> FALSE]

\* seq.matches(data), called once on the sequence
Matches(data) ==
    /\ ~result.called
    /\ result' = [called |-> TRUE, data |-> data, matched |-> matches(seq, data)]
    /\ UNCHANGED <<auxvars, seq, rxvars, seqvars, tmvars, appvars>>

InitPattern == NoRx /\ NoSeq /\ InitPat /\ NoTm /\ NoApp /\ NoAux

NextPat == \E data \in Messages(seq.receive_format) : Matches(data)

SpecPat == InitPattern /\ [][NextPat]_vars

\* ---------------------------------------------------- claims on one pattern
\* C9: a sequence whose pattern text has no unit (it is empty or spaces only)
\* matches no message.
C9_ZeroUnitsNeverMatch ==
    (result.called /\ Split(seq.receive_data) = <<>>) => ~result.matched

UnitFormats == {"hex", "decimal", "binary"}

\* The reference: the units occur in m as a contiguous subsequence, a fixed
\* unit equal to its byte, a wildcard unit on any one byte.
RefMatch(units, m) ==
    \E i \in 0..(Len(m) - Len(units)) :
        \A k \in 1..Len(units) :
            units[k].kind = "lit" => m[i + k] = units[k].val

TextAAxBB == <<"A", "A", " ", "?", "?", " ", "B", "B">>

TextBinaryWild == <<"?", "?", "?", "?", "?", "?", "?", "?">>

\* C10: a hex, decimal or binary pattern compiled to n >= 1 units matches a
\* message exactly when the reference does; hex "AA ?? BB" matches AA 01 BB
\* and AA FF BB and not AA BB; binary "????????" matches every one-byte
\* message; no pattern matches a message shorter than its units.
C10_ContiguousWithWildcards ==
    (/\ result.called
     /\ seq.receive_format \in UnitFormats
     /\ seq.pattern.ok
     /\ Len(seq.pattern.items) >= 1)
        => /\ result.matched = RefMatch(seq.pattern.items, result.data)
           /\ Len(result.data) < Len(seq.pattern.items) => ~result.matched
           /\ (seq.receive_format = "hex" /\ seq.receive_data = TextAAxBB)
                 => /\ result.data \in {<<170, 1, 187>>, <<170, 255, 187>>}
                          => result.matched
                    /\ result.data = <<170, 187>> => ~result.matched
           /\ (/\ seq.receive_format = "binary"
               /\ seq.receive_data = TextBinaryWild
               /\ Len(result.data) = 1)
                 => result.matched

\* C10's case: hex "AA ?? BB" was tried on AA 0A BB, the wildcard on a line
\* feed, and matched.
C10_Witness ==
    /\ result.called
    /\ seq.receive_format = "hex" /\ seq.receive_data = TextAAxBB
    /\ result.data = <<170, 10, 187>>
    /\ result.matched

\* The units the spec gives an ascii text: each "??" token one wildcard,
\* every other character the literal of itself.
RECURSIVE AsciiUnits(_)
AsciiUnits(text) ==
    IF text = <<>> THEN <<>>
    ELSE IF Len(text) >= 2 /\ text[1] = "?" /\ text[2] = "?"
         THEN <<AnyByte>> \o AsciiUnits(SubSeq(text, 3, Len(text)))
         ELSE <<Lit(Ord(text[1]))>> \o AsciiUnits(Tail(text))

\* C11: an ascii pattern matches a message exactly when its characters occur
\* in it as a contiguous run, every character other than "??" matching only
\* itself and each "??" matching any one byte, the line feed included.
C11_AsciiLiteralAndWildcard ==
    (/\ result.called
     /\ seq.receive_format = "ascii"
     /\ seq.receive_data # <<>>)
        => result.matched = RefMatch(AsciiUnits(seq.receive_data), result.data)

\* A part of a hex or decimal text that is neither "??" nor a number of the
\* base in 0..255; a binary text whose length without spaces is not a
\* multiple of 8, or with a chunk that is neither "????????" nor 8 bits.
MalformedPart(part, base) ==
    part # <<"?", "?">> /\ ParseInt(part, base) \notin 0..255

MalformedBinary(text) ==
    LET bin_str == SelectSeq(text, NotSpace)
    IN  \/ Len(bin_str) % 8 # 0
        \/ \E i \in 1..(Len(bin_str) \div 8) :
              LET chunk == SubSeq(bin_str, 8 * (i - 1) + 1, 8 * i)
              IN  chunk # TextBinaryWild /\ ParseInt(chunk, 2) = -1

Malformed(text, format) ==
    CASE format = "hex" ->
             \E i \in 1..Len(Split(text)) : MalformedPart(Split(text)[i], 16)
      [] format = "decimal" ->
             \E i \in 1..Len(Split(text)) : MalformedPart(Split(text)[i], 10)
      [] format = "binary" -> MalformedBinary(text)
      [] OTHER -> FALSE

\* C12: a receive pattern with a malformed unit (non-hex text in hex, a value
\* outside 0..255 in hex or decimal, a binary chunk that is not 8 characters)
\* is invalid and its sequence matches no message.
C12_MalformedNeverMatches ==
    Malformed(seq.receive_data, seq.receive_format)
        => /\ ~seq.pattern.ok
           /\ result.called => ~result.matched

\* ------------------------------------------------- the load's specification
MaxLoads == 2

\* The records of a load: every one omits active and the receive format; it
\* carries no delay, delay_ms: 5, delay: 5, or delay: a string.
LoadRecord(name) == [name |-> name, receive |-> [data |-> TextAA]]

LoadConfigs ==
    UNION {{LoadRecord(name),
            LoadRecord(name) @@ [delay_ms |-> Num(5)],
            LoadRecord(name) @@ [delay |-> Num(5)],
            LoadRecord(name) @@ [delay |-> Str]} : name \in SeqNames}

ConfigLists == UNION {[1..n -> LoadConfigs] : n \in 0..MaxSeqs}

InitLoad ==
    /\ \E configs \in ConfigLists :
          /\ sequences = load_sequences(<<>>, configs)
          /\ ld = FirstLoad(configs, sequences)
    /\ checked = [called |-> FALSE]
    /\ tog = [called |-> FALSE]

\* reload_sequences() (lines 148-150): load_sequences() on the records the
\* file holds now.  ld keeps the records, the instances now in the
\* collection, and the collection and its instances before the load.
ReloadSequences(configs) ==
    /\ ld.n < MaxLoads
    /\ sequences' = load_sequences(sequences, configs)
    /\ ld' = [n |-> ld.n + 1, configs |-> configs,
              ids |-> Instances(ld.n + 1, sequences'),
              pre |-> sequences, pre_ids |-> ld.ids]
    /\ checked' = [called |-> FALSE]
    /\ tog' = [called |-> FALSE]
    /\ UNCHANGED <<auxvars, rxvars, patvars, tmvars, appvars>>

InitLoader == NoRx /\ InitLoad /\ NoPat /\ NoTm /\ NoApp /\ NoAux

NextLoad ==
    \/ \E configs \in ConfigLists : ReloadSequences(configs)
    \/ \E name \in SeqNames : ToggleSequence(name)

SpecLoad == InitLoader /\ [][NextLoad]_vars

\* ------------------------------------------------------- claims on the load
WellFormed(config) == ~Raises(config)

\* C13: after a load, the collection holds the Sequence of every well-formed
\* record of the load, those before and those after a malformed record, in
\* the order of the records.
C13_OnlyMalformedDropped ==
    ~tog.called
        => LET good == SelectSeq(ld.configs, WellFormed)
           IN  sequences = [i \in 1..Len(good) |-> ReceiveSequence(good[i])]

\* a is b with some of its elements left out.
RECURSIVE IsSubSeq(_, _)
IsSubSeq(a, b) ==
    IF a = <<>> THEN TRUE
    ELSE IF b = <<>> THEN FALSE
    ELSE IF a[1] = b[1] THEN IsSubSeq(Tail(a), Tail(b))
    ELSE IsSubSeq(a, Tail(b))

\* C14: after a load the collection holds only Sequences built from the
\* records of that load, in record order; no instance that was in the
\* collection before is in it, and every active flag is the record's (here
\* the default), whatever was toggled before.
C14_ReloadRebuilds ==
    ~tog.called
        => /\ LET good == SelectSeq(ld.configs, WellFormed)
              IN  IsSubSeq(sequences,
                           [i \in 1..Len(good) |-> ReceiveSequence(good[i])])
           /\ Len(ld.ids) = Len(sequences)
           /\ Range(ld.ids) \cap Range(ld.pre_ids) = {}
           /\ \A i \in 1..Len(sequences) : sequences[i].active

\* C14's case: a sequence toggled inactive was in the collection before a
\* reload, and the reload put a sequence of the same name in it.
C14_Witness ==
    /\ ld.n >= 2 /\ ~tog.called
    /\ \E i \in 1..Len(ld.pre) : \E j \in 1..Len(sequences) :
          /\ ~ld.pre[i].active
          /\ sequences[j].name = ld.pre[i].name
          /\ sequences[j].active

\* The delay, in milliseconds, the spec gives a record.
DelayMs(config) == Get(config, "delay_ms", Num(0)).val

\* C19: a Sequence loaded from a record has the delay of the record's
\* delay_ms, 0 without it, is active when the record omits active and has
\* the format hex when the record omits the format.
C19_DelayFromRecord ==
    \A i \in 1..Len(sequences) :
        LET config == ld.configs[i]
        IN  /\ sequences[i].delay = DelayMs(config)
            /\ ~tog.called => sequences[i].active
            /\ sequences[i].receive_format = "hex"
            /\ sequences[i].send_format = "hex"

\* ---------------------------------------------------- claims on toggle(name)
\* C20: toggle_sequence with a name no sequence carries leaves every sequence
\* as it was and returns a result that differs from the result of a
\* successful toggle; with a known name it returns the new active state.
C20_UnknownNameToldApart ==
    tog.called
        => /\ tog.idx = 0 => sequences = tog.pre
           /\ tog.idx # 0 => tog.ret = sequences[tog.idx].active
           /\ (/\ tog.idx = 0
               /\ tog.prev.called
               /\ get_sequence_by_name(tog.prev.pre, tog.prev.name) # 0)
                 => tog.ret # tog.prev.ret

\* ==========================================================================
\* The timeout of SerialReceiver (src/serial_comm/receiver.py, lines 11-104)
\* ==========================================================================
\* In this specification a time is a whole number of microseconds.

\* lines 11-14
BITS_PER_BYTE == 10

SAFETY_MULTIPLIER == 3

MIN_TIMEOUT == 5000

MAX_TIMEOUT == 200000

\* line 50: the default fallback, 0.05 s
DEFAULT_TIMEOUT == 50000

\* ------------------------------------------------------------------ bounds
MaxRateExp == 8

\* The bit rates 75, 150, 300, ..., 75 * 2^MaxRateExp.
Rates == {75 * 2^k : k \in 0..MaxRateExp}

\* The timeouts given to the constructor and to set_timeout: below
\* MIN_TIMEOUT, between the two, and above MAX_TIMEOUT.
Timeouts == {1000, 20000, 300000}

Max(a, b) == IF a >= b THEN a ELSE b

Min(a, b) == IF a <= b THEN a ELSE b

\* A variant of _calculate_timeout without the clamp of line 73.
calculate_timeout_NoClamp(rate) ==
    (BITS_PER_BYTE * SAFETY_MULTIPLIER * 1000000) \div rate

\* _calculate_timeout, lines 53-79: char_time * SAFETY_MULTIPLIER with
\* char_time = BITS_PER_BYTE / baud_rate, clamped; the quotient is taken
\* last, so that it is rounded once, down to the microsecond.
calculate_timeout(rate) ==
    LET timeout == (BITS_PER_BYTE * SAFETY_MULTIPLIER * 1000000) \div rate
    IN  Max(MIN_TIMEOUT, Min(MAX_TIMEOUT, timeout))

\* calc after a call of _calculate_timeout(rate) that returned timeout.
Calculated(rate, timeout) ==
    [n |-> IF calc.n = 0 THEN 1 ELSE 2, rate |-> rate, timeout |-> timeout,
     prev_rate |-> IF calc.n = 0 THEN 0 ELSE calc.rate,
     prev_timeout |-> IF calc.n = 0 THEN 0 ELSE calc.timeout]

\* __init__, lines 41-51: an explicit message_timeout, else a baud_rate,
\* else the default.
InitTm ==
    /\ \/ /\ message_timeout \in Timeouts
          /\ baud_rate \in Rates \cup {0}
          /\ auto_timeout = FALSE
          /\ tmcall = [op |-> "init", given |-> "message_timeout"]
       \/ /\ baud_rate \in Rates
          /\ message_timeout = calculate_timeout(baud_rate)
          /\ auto_timeout = TRUE
          /\ tmcall = [op |-> "init", given |-> "baud_rate"]
       \/ /\ baud_rate = 0
          /\ message_timeout = DEFAULT_TIMEOUT
          /\ auto_timeout = FALSE
          /\ tmcall = [op |-> "init", given |-> "none"]
    /\ calc = IF ~auto_timeout THEN [n |-> 0]
              ELSE [n |-> 1, rate |-> baud_rate, timeout |-> message_timeout,
                    prev_rate |-> 0, prev_timeout |-> 0]

\* A variant of set_baud_rate that recomputes the timeout in every mode.
set_baud_rate_Always(rate) ==
    /\ baud_rate' = rate
    /\ message_timeout' = calculate_timeout(rate)
    /\ calc' = Calculated(rate, message_timeout')
    /\ tmcall' = [op |-> "set_baud_rate", rate |-> rate,
                  auto |-> auto_timeout, before |-> message_timeout,
                  buf |-> buffer]
    /\ UNCHANGED <<auxvars, auto_timeout, running, buffer, last_receive_time,
                   connected, th, now, nread, delivered, last_arrival,
                   stamp, hist, seqvars, patvars, appvars>>

\* A variant of set_baud_rate that never recomputes the timeout.
set_baud_rate_Stale(rate) ==
    /\ baud_rate' = rate
    /\ tmcall' = [op |-> "set_baud_rate", rate |-> rate,
                  auto |-> auto_timeout, before |-> message_timeout,
                  buf |-> buffer]
    /\ UNCHANGED <<auxvars, auto_timeout, message_timeout, calc, running,
                   buffer, last_receive_time, connected, th, now, nread,
                   delivered, last_arrival, stamp, hist, seqvars, patvars,
                   appvars>>

\* set_baud_rate, lines 81-92; tmcall keeps the buffer at the call (buf)
set_baud_rate(rate) ==
    /\ baud_rate' = rate
    /\ IF auto_timeout
       THEN /\ message_timeout' = calculate_timeout(rate)
            /\ calc' = Calculated(rate, message_timeout')
       ELSE UNCHANGED <<message_timeout, calc>>
    /\ tmcall' = [op |-> "set_baud_rate", rate |-> rate,
                  auto |-> auto_timeout, before |-> message_timeout,
                  buf |-> buffer]
    /\ UNCHANGED <<auxvars, auto_timeout, running, buffer, last_receive_time,
                   connected, th, now, nread, delivered, last_arrival,
                   stamp, hist, seqvars, patvars, appvars>>

\* A variant of set_timeout that starts the accumulation afresh, as start()
\* does at lines 111-112.
set_timeout_Reset(timeout, auto) ==
    /\ message_timeout' = timeout
    /\ auto_timeout' = auto
    /\ buffer' = <<>>
    /\ last_receive_time' = 0
    /\ tmcall' = [op |-> "set_timeout", timeout |-> timeout, auto |-> auto,
                  buf |-> buffer]
    /\ UNCHANGED <<auxvars, baud_rate, calc, running, connected, th, now,
                   nread, delivered, last_arrival, stamp, hist, seqvars,
                   patvars, appvars>>

\* set_timeout, lines 94-104; tmcall keeps the buffer at the call (buf)
set_timeout(timeout, auto) ==
    /\ message_timeout' = timeout
    /\ auto_timeout' = auto
    /\ tmcall' = [op |-> "set_timeout", timeout |-> timeout, auto |-> auto,
                  buf |-> buffer]
    /\ UNCHANGED <<auxvars, baud_rate, calc, running, buffer, last_receive_time,
                   connected, th, now, nread, delivered, last_arrival,
                   stamp, hist, seqvars, patvars, appvars>>

\* The receiver constructed, not started.
InitTimeout ==
    /\ running = FALSE
    /\ buffer = <<>>
    /\ last_receive_time = 0
    /\ connected = FALSE
    /\ th = [loop |-> Local("none"), main |-> Local("idle")]
    /\ now = 1
    /\ nread = 0
    /\ delivered = <<>>
    /\ last_arrival = 0
    /\ stamp = [k \in 1..MaxBytes |-> 0]
    /\ hist = [stops |-> 0, buf |-> <<>>, sent |-> <<>>,
               interfered |-> FALSE, rx |-> FALSE, norx |-> FALSE]
    /\ InitTm
    /\ NoSeq /\ NoPat /\ NoApp /\ NoAux

NextTimeout ==
    \/ \E rate \in Rates : set_baud_rate(rate)
    \/ \E timeout \in Timeouts : \E auto \in BOOLEAN : set_timeout(timeout, auto)

SpecTimeout == InitTimeout /\ [][NextTimeout]_vars

\* ---------------------------------------------------- claims on the timeout
\* clamp(x, lo, hi)
Clamp(x, lo, hi) == IF x < lo THEN lo ELSE IF x > hi THEN hi ELSE x

\* C17: set_baud_rate(r) leaves the timeout and the mode as they were when
\* the timeout is in manual mode (explicit at construction, the default, or
\* set by set_timeout(d, auto = false)), and in auto mode sets the timeout to
\* clamp(3 * 10 / r, 5 ms, 200 ms).
C17_RecomputeOnlyInAuto ==
    /\ tmcall.op = "init" => (auto_timeout <=> tmcall.given = "baud_rate")
    /\ tmcall.op = "set_timeout"
          => auto_timeout = tmcall.auto /\ message_timeout = tmcall.timeout
    /\ tmcall.op = "set_baud_rate"
          => /\ auto_timeout = tmcall.auto
             /\ baud_rate = tmcall.rate
             /\ ~tmcall.auto => message_timeout = tmcall.before
             /\ tmcall.auto
                   => message_timeout
                          = Clamp(30000000 \div tmcall.rate, 5000, 200000)

\* C17's case: a manual timeout that no bit rate derives was kept by a
\* set_baud_rate.
C17_Witness ==
    /\ tmcall.op = "set_baud_rate" /\ ~tmcall.auto
    /\ message_timeout = tmcall.before
    /\ message_timeout # calculate_timeout(tmcall.rate)

\* C18: a derived timeout is between 5 ms and 200 ms, and of two derived
\* timeouts the one of the lower bit rate is not the smaller.
C18_ClampedAndMonotone ==
    /\ calc.n >= 1 => (5000 <= calc.timeout /\ calc.timeout <= 200000)
    /\ calc.n >= 2
          => /\ calc.prev_rate <= calc.rate => calc.prev_timeout >= calc.timeout
             /\ calc.prev_rate >= calc.rate => calc.prev_timeout <= calc.timeout

\* C18's case: two bit rates whose derived timeouts are strictly between the
\* clamps, the higher rate with the smaller timeout.
C18_Witness ==
    /\ calc.n >= 2
    /\ calc.prev_rate < calc.rate
    /\ 5000 < calc.timeout /\ calc.timeout < calc.prev_timeout
    /\ calc.prev_timeout < 200000

\* ==========================================================================
\* The response of a matched sequence (src/sequence_handler.py, lines 99-116,
\* and src/ui/app.py, lines 525-555)
\* ==========================================================================
\* In this specification a time is a whole number of milliseconds.

\* ------------------------------------------------------------------ bounds
MaxFrames == 2

\* What a conversion gives: the bytes, or the exception it raised.
Bytes(bs) == [ok |-> TRUE, bytes |-> bs]

Raised == [ok |-> FALSE, bytes |-> <<>>]

\* str.replace("0x", ""): left to right, without overlap.
RECURSIVE Remove0x(_)
Remove0x(text) ==
    IF text = <<>> THEN <<>>
    ELSE IF Len(text) >= 2 /\ text[1] = "0" /\ text[2] = "x"
         THEN Remove0x(SubSeq(text, 3, Len(text)))
         ELSE <<text[1]>> \o Remove0x(Tail(text))

\* bytes.fromhex of a string without spaces: pairs of hex digits.
FromHex(hex_str) ==
    IF /\ Len(hex_str) % 2 = 0
       /\ \A i \in 1..Len(hex_str) : IsDigit(hex_str[i], 16)
    THEN Bytes([i \in 1..(Len(hex_str) \div 2) |->
                   16 * DigitValue(hex_str[2 * i - 1])
                       + DigitValue(hex_str[2 * i])])
    ELSE Raised

\* bytes([...]) of the int() of every part: raises when an int() raises or a
\* value is not in 0..255.
FromInts(parts, base) ==
    IF \A i \in 1..Len(parts) : ParseInt(parts[i], base) \in 0..255
    THEN Bytes([i \in 1..Len(parts) |-> ParseInt(parts[i], base)])
    ELSE Raised

\* lines 108-109: [bin_values[i:i+8] for i in range(0, len(bin_values), 8)]
Chunks(bin_values) ==
    [i \in 1..((Len(bin_values) + 7) \div 8) |->
        SubSeq(bin_values, 8 * (i - 1) + 1,
               IF 8 * i < Len(bin_values) THEN 8 * i ELSE Len(bin_values))]

\* str.encode('ascii')
EncodeAscii(text) ==
    IF \A i \in 1..Len(text) : Ord(text[i]) <= 127
    THEN Bytes([i \in 1..Len(text) |-> Ord(text[i])])
    ELSE Raised

\* get_response_bytes, lines 99-116: b"" when the conversion raises
get_response_bytes(self) ==
    LET converted ==
            CASE self.send_format = "hex" ->
                     FromHex(Remove0x(SelectSeq(self.send_data, NotSpace)))
              [] self.send_format = "decimal" ->
                     FromInts(Split(self.send_data), 10)
              [] self.send_format = "binary" ->
                     FromInts(Chunks(SelectSeq(self.send_data, NotSpace)), 2)
              [] OTHER -> EncodeAscii(self.send_data)
    IN  IF converted.ok THEN converted.bytes ELSE <<>>

\* A variant of line 550 that puts the write before the writes made so far.
send_sequence_response_First(sequence, m) ==
    LET response_bytes == get_response_bytes(sequence)
    IN  IF response_bytes # <<>>
        THEN <<[m |-> m, bytes |-> response_bytes, at |-> now,
                sent |-> connected, tx |-> TRUE]>> \o written
        ELSE written

\* _send_sequence_response, lines 546-555, for the match of frame m: the
\* write calls after it.  SerialConnection.write (connection.py, lines
\* 89-106) sends the bytes when the connection is connected and returns 0
\* without sending when it is not (sent).  Line 551 logs the bytes as 'tx'
\* after the call, whatever it returned (tx).
send_sequence_response(sequence, m) ==
    LET response_bytes == get_response_bytes(sequence)
    IN  IF response_bytes # <<>>
        THEN Append(written, [m |-> m, bytes |-> response_bytes, at |-> now,
                              sent |-> connected, tx |-> TRUE])
        ELSE written

\* The write calls and the pending timers of the match of frame m.
WritesOf(m) == {k \in 1..Len(written) : written[k].m = m}

TimersOf(m) == {t \in timers : t.m = m}

\* A variant of lines 537-544 that sends at once and schedules as well.
OnFrameReceived_Both(frame_bytes) ==
    LET m == Len(handled) + 1
        i == check_data(sequences, frame_bytes)
    IN  /\ m <= MaxFrames
        /\ handled' = Append(handled, [data |-> frame_bytes, idx |-> i,
                                       at |-> now, fired |-> FALSE,
                                       cut |-> FALSE, live |-> FALSE])
        /\ IF i = 0
           THEN UNCHANGED <<timers, written>>
           ELSE /\ written' = send_sequence_response(sequences[i], m)
                /\ timers' = IF sequences[i].delay > 0
                             THEN timers \cup
                                      {[m |-> m, sequence |-> sequences[i],
                                        due |-> now + sequences[i].delay]}
                             ELSE timers
        /\ UNCHANGED <<auxvars, rxvars, seqvars, patvars, tmvars>>

\* _on_frame_received, lines 525-544, on the frame number m
OnFrameReceived(frame_bytes) ==
    LET m == Len(handled) + 1
        i == check_data(sequences, frame_bytes)
    IN  /\ m <= MaxFrames
        /\ handled' = Append(handled, [data |-> frame_bytes, idx |-> i,
                                       at |-> now, fired |-> FALSE,
                                       cut |-> FALSE, live |-> FALSE])
        /\ IF i = 0
           THEN UNCHANGED <<timers, written>>
           ELSE IF sequences[i].delay > 0
           THEN /\ timers' = timers \cup
                                 {[m |-> m, sequence |-> sequences[i],
                                   due |-> now + sequences[i].delay]}
                /\ UNCHANGED written
           ELSE /\ written' = send_sequence_response(sequences[i], m)
                /\ UNCHANGED timers
        /\ UNCHANGED <<auxvars, rxvars, seqvars, patvars, tmvars>>

\* A variant of the callback of line 540 that looks the sequence up in the
\* collection when the timer fires, and sends nothing when it is inactive.
TimerFired_Current ==
    \E t \in timers :
        LET i == handled[t.m].idx
        IN  /\ ui.pc = "idle"
            /\ now >= t.due
            /\ timers' = timers \ {t}
            /\ written' = IF i <= Len(sequences) /\ sequences[i].active
                           THEN send_sequence_response(sequences[i], t.m)
                           ELSE written
            /\ handled' = [handled EXCEPT ![t.m].fired = TRUE,
                                          ![t.m].live = connected]
            /\ UNCHANGED <<auxvars, rxvars, seqvars, patvars, tmvars>>

\* The callback of a timer of line 538, run once when its delay has passed,
\* on the application's thread.  handled keeps whether the connection was
\* connected then (live).
TimerFired ==
    \E t \in timers :
        /\ ui.pc = "idle"
        /\ now >= t.due
        /\ timers' = timers \ {t}
        /\ written' = send_sequence_response(t.sequence, t.m)
        /\ handled' = [handled EXCEPT ![t.m].fired = TRUE,
                                      ![t.m].live = connected]
        /\ UNCHANGED <<auxvars, rxvars, seqvars, patvars, tmvars>>

\* A variant of _disconnect_serial that cancels the timers not yet fired.
DisconnectSerial_Cancel ==
    /\ connected
    /\ running' = FALSE
    /\ connected' = FALSE
    /\ timers' = {}
    /\ handled' = [m \in 1..Len(handled) |->
                      [handled[m] EXCEPT !.cut = @ \/ TimersOf(m) # {}]]
    /\ UNCHANGED <<auxvars, seqvars, patvars, tmvars, written,
                   buffer, last_receive_time, message_timeout, th, now, nread,
                   delivered, last_arrival, stamp, hist>>

\* _disconnect_serial, lines 463-467: receiver.stop() (running = False; the
\* buffer is empty here, nothing is flushed) and serial_conn.disconnect().
\* No timer is touched.  handled keeps which matches had a timer pending (cut).
DisconnectSerial ==
    /\ connected
    /\ running' = FALSE
    /\ connected' = FALSE
    /\ handled' = [m \in 1..Len(handled) |->
                      [handled[m] EXCEPT !.cut = @ \/ TimersOf(m) # {}]]
    /\ UNCHANGED <<auxvars, seqvars, patvars, tmvars, timers, written,
                   buffer, last_receive_time, message_timeout, th, now, nread,
                   delivered, last_arrival, stamp, hist>>

\* _connect_serial: serial_conn.connect() succeeding and receiver.start()
\* (line 443).  The loop thread is not part of this specification: the
\* frames it delivers are the inputs of OnFrameReceived.
ConnectSerial ==
    /\ ~connected
    /\ connected' = TRUE
    /\ running' = TRUE
    /\ UNCHANGED <<auxvars, seqvars, patvars, tmvars, appvars,
                   buffer, last_receive_time, message_timeout, th, now, nread,
                   delivered, last_arrival, stamp, hist>>

\* The send templates of the records.
SendTemplates ==
    {[data |-> <<"4", "1">>, format |-> "hex"],
     [data |-> <<"4">>, format |-> "hex"],
     [data |-> <<"1", "0", "1", "0">>, format |-> "binary"],
     [data |-> <<"é">>, format |-> "ascii"]}

AppConfigs ==
    UNION {{[name |-> "a", receive |-> [data |-> TextAA], send |-> t],
            [name |-> "a", receive |-> [data |-> TextAA], send |-> t,
             delay |-> Num(1)]} : t \in SendTemplates}

AppMessages == {<<170>>, <<1>>}

\* The handler the application holds.
InitApp ==
    /\ \E n \in 1..MaxSeqs : \E configs \in [1..n -> AppConfigs] :
          /\ sequences = load_sequences(<<>>, configs)
          /\ ld = FirstLoad(configs, sequences)
    /\ checked = [called |-> FALSE]
    /\ tog = [called |-> FALSE]
    /\ timers = {}
    /\ written = <<>>
    /\ handled = <<>>

InitResponder == NoRx /\ InitApp /\ NoPat /\ NoTm /\ NoAux

NextApp ==
    \/ \E frame_bytes \in AppMessages : OnFrameReceived(frame_bytes)
    \/ TimerFired
    \/ Tick

SpecApp == InitResponder /\ [][NextApp]_vars

\* -------------------------------------------------- claims on the response
\* C15: a match of a sequence with delay zero encodes and writes the response
\* in the step that handles the frame and schedules no timer; a match of a
\* sequence with a delay schedules exactly one timer, due one delay later,
\* and the response is encoded and written when it fires and not before; a
\* frame that matches nothing writes nothing; no match leads to more than one
\* write.
C15_ResponseDispatch ==
    \A m \in 1..Len(handled) :
        LET h == handled[m]
            W == WritesOf(m)
            T == TimersOf(m)
        IN  /\ Cardinality(W) <= 1
            /\ h.idx = 0 => (W = {} /\ T = {})
            /\ h.idx # 0 =>
                  LET sequence == sequences[h.idx]
                      response == get_response_bytes(sequence)
                      due == h.at + sequence.delay
                  IN  /\ \A k \in W : written[k].bytes = response
                      /\ sequence.delay = 0 =>
                            /\ T = {}
                            /\ response # <<>> => W # {}
                            /\ \A k \in W : written[k].at = h.at
                      /\ (sequence.delay > 0 /\ ~h.fired) =>
                            /\ W = {}
                            /\ T = {[m |-> m, sequence |-> sequence,
                                     due |-> due]}
                      /\ (sequence.delay > 0 /\ h.fired) =>
                            /\ T = {}
                            /\ response # <<>> => W # {}
                            /\ \A k \in W : written[k].at >= due

\* C15's case: a frame matched a sequence with a delay, and its response was
\* written when the timer fired, one delay after the frame was handled.
C15_Witness ==
    \E m \in 1..Len(handled) :
        /\ handled[m].idx # 0 /\ sequences[handled[m].idx].delay > 0
        /\ handled[m].fired
        /\ TimersOf(m) = {}
        /\ \E k \in WritesOf(m) :
              written[k].at = handled[m].at + sequences[handled[m].idx].delay

\* A send template the spec's encoding rules reject: a hex or decimal unit
\* that is no number of the base in 0..255 (a wildcard token is none), a
\* binary text that is not whole chunks of 8 bits, a non-ASCII character.
MalformedTemplate(text, format) ==
    CASE format = "hex" ->
             \E i \in 1..Len(Split(text)) :
                 ParseInt(Split(text)[i], 16) \notin 0..255
      [] format = "decimal" ->
             \E i \in 1..Len(Split(text)) :
                 ParseInt(Split(text)[i], 10) \notin 0..255
      [] format = "binary" ->
             LET bin_str == SelectSeq(text, NotSpace)
             IN  \/ Len(bin_str) % 8 # 0
                 \/ \E i \in 1..Len(bin_str) : ~IsDigit(bin_str[i], 2)
      [] OTHER -> \E i \in 1..Len(text) : Ord(text[i]) > 127

\* C16: a malformed response template encodes to the empty byte result, and
\* on a match of its sequence nothing is written.
C16_MalformedTemplateSendsNothing ==
    \A m \in 1..Len(handled) :
        LET h == handled[m]
        IN  (/\ h.idx # 0
             /\ MalformedTemplate(sequences[h.idx].send_data,
                                  sequences[h.idx].send_format))
                => /\ get_response_bytes(sequences[h.idx]) = <<>>
                   /\ WritesOf(m) = {}

\* ==========================================================================
\* Further claims on the receiver (Spec, FairSpec)
\* ==========================================================================
\* The Messages of a sequence of Messages, one after the other.
RECURSIVE Concat(_)
Concat(messages) ==
    IF messages = <<>> THEN <<>> ELSE messages[1] \o Concat(Tail(messages))

\* C25: the Messages delivered so far, one after the other in delivery
\* order, are a prefix of the bytes read() has returned so far (the bytes
\* 1, 2, ..., nread), the Message flushed by stop() included.
C25_DeliveredInArrivalOrder ==
    LET all == Concat(delivered)
    IN  /\ Len(all) <= nread
        /\ \A i \in 1..Len(all) : all[i] = i

\* The loop thread leaves _receive_loop in this step.
LoopExits == th.loop.pc # "ended" /\ th'.loop.pc = "ended"

ReprByte(b, q) ==
    LET LowerHexDigit(d) == IF d < 10 THEN 48 + d ELSE 87 + d
    IN
    CASE b = 92 -> <<92, 92>>
      [] b = 9 -> <<92, 116>>
      [] b = 10 -> <<92, 110>>
      [] b = 13 -> <<92, 114>>
      [] b = 39 /\ q = 39 -> <<92, 39>>
      [] b >= 32 /\ b < 127 -> <<b>>
      [] OTHER -> <<92, 120, LowerHexDigit(b \div 16), LowerHexDigit(b % 16)>>

RECURSIVE ReprBytes(_, _)
ReprBytes(bs, q) ==
    IF bs = <<>> THEN <<>> ELSE ReprByte(bs[1], q) \o ReprBytes(Tail(bs), q)

\* format_frame, lines 139-143: str(frame_bytes), b'...', or b"..." when the
\* bytes hold a ' and no ".
format_frame(frame_bytes) ==
    LET has(c) == \E i \in 1..Len(frame_bytes) : frame_bytes[i] = c
        q == IF has(39) /\ ~has(34) THEN 34 ELSE 39
    IN  <<98, q>> \o ReprBytes(frame_bytes, q) \o <<q>>

\* str.replace(old, new) for an old of two characters and a new of one.
RECURSIVE Replace2(_, _, _)
Replace2(text, old, new) ==
    IF text = <<>> THEN <<>>
    ELSE IF Len(text) >= 2 /\ text[1] = old[1] /\ text[2] = old[2]
         THEN <<new>> \o Replace2(SubSeq(text, 3, Len(text)), old, new)
         ELSE <<text[1]>> \o Replace2(Tail(text), old, new)

\* str.encode('utf-8') of characters of codes up to 255.
RECURSIVE EncodeUtf8(_)
EncodeUtf8(text) ==
    LET Utf8(c) ==
            IF c < 128 THEN <<c>> ELSE <<192 + (c \div 64), 128 + (c % 64)>>
    IN  IF text = <<>> THEN <<>> ELSE Utf8(text[1]) \o EncodeUtf8(Tail(text))

\* _extract_bytes_from_string, lines 10-37: of b'...' or b"..." the inside,
\* with the escapes \r \n \t \' \" \\ replaced in this order, encoded as
\* latin-1 (every code here is below 256); any other string encoded as utf-8.
extract_bytes_from_string(data) ==
    LET n == Len(data)
        quoted(q) == n >= 2 /\ data[1] = 98 /\ data[2] = q /\ data[n] = q
    IN  IF quoted(39) \/ quoted(34)
        THEN LET inner == SubSeq(data, 3, n - 1)
                 r1 == Replace2(inner, <<92, 114>>, 13)
                 r2 == Replace2(r1, <<92, 110>>, 10)
                 r3 == Replace2(r2, <<92, 116>>, 9)
                 r4 == Replace2(r3, <<92, 39>>, 39)
                 r5 == Replace2(r4, <<92, 34>>, 34)
             IN  Replace2(r5, <<92, 92>>, 92)
        ELSE EncodeUtf8(data)

\* lines 56-67: the message without the label it starts with, "[TX] ",
\* "[RX] " or "[Error] ".
DataOf(message) ==
    LET Labels == {<<91, 84, 88, 93, 32>>, <<91, 82, 88, 93, 32>>,
                   <<91, 69, 114, 114, 111, 114, 93, 32>>}
        L == {l \in Labels : Len(message) >= Len(l)
                                /\ SubSeq(message, 1, Len(l)) = l}
    IN  IF L = {} THEN message
        ELSE SubSeq(message, Len(CHOOSE l \in L : TRUE) + 1, Len(message))

\* str(byte)
RECURSIVE Decimal(_)
Decimal(byte) ==
    IF byte < 10 THEN <<HexChars[byte + 1]>>
    ELSE Append(Decimal(byte \div 10), HexChars[(byte % 10) + 1])

\* The unit a format writes for a byte: f"{byte:02X}" (line 71), str(byte)
\* (line 101), f"{byte:08b}" (line 131).
UnitText(byte, format) ==
    CASE format = "hex" ->
             <<HexChars[(byte \div 16) + 1], HexChars[(byte % 16) + 1]>>
      [] format = "decimal" -> Decimal(byte)
      [] OTHER -> [i \in 1..8 |-> HexChars[((byte \div 2^(8 - i)) % 2) + 1]]

\* format_log_message_hex, _decimal and _binary (lines 49-136), without the
\* timestamp and the label: " ".join of the unit of every byte extracted.
format_log_message_in(message, format) ==
    LET byte_data == extract_bytes_from_string(DataOf(message))
    IN  Join([i \in 1..Len(byte_data) |-> UnitText(byte_data[i], format)],
             <<" ">>)

\* ------------------------------------------------ the codec's specification
\* The texts of a format: one well-formed unit for every byte value, up to
\* MaxUnits well-formed units of the bytes 0A 41 5C AA, and hex and binary
\* units written with fewer digits.
CodecTexts(format) ==
    LET CodecBytes == {10, 65, 92, 170}
    IN
    IF format = "ascii"
    THEN Texts("ascii")
    ELSE {UnitText(b, format) : b \in 0..255}
         \cup {Join([i \in 1..Len(bs) |-> UnitText(bs[i], format)], <<" ">>) :
                  bs \in UNION {[1..n -> CodecBytes] : n \in 2..MaxUnits}}
         \cup {<<"A">>, <<"4", " ", "1">>, <<"1", "0", "1", "0">>}

\* One ReceiveSequence whose receive text and send text are the same text.
InitCodec ==
    /\ \E format \in Formats : \E text \in CodecTexts(format) :
          seq = ReceiveSequence([receive |-> [data |-> text, format |-> format],
                                 send |-> [data |-> text, format |-> format]])
    /\ result = [called |-> FALSE]

\* The response of seq encoded, then logged as a frame and rendered in the
\* format of the template.
Render ==
    /\ ~result.called
    /\ LET response_bytes == get_response_bytes(seq)
       IN  result' = [called |-> TRUE, bytes |-> response_bytes,
                      text |-> format_log_message_in(
                                   format_frame(response_bytes),
                                   seq.send_format)]
    /\ UNCHANGED <<auxvars, seq, rxvars, seqvars, tmvars, appvars>>

InitRender == NoRx /\ NoSeq /\ InitCodec /\ NoTm /\ NoApp /\ NoAux

SpecCodec == InitRender /\ [][Render]_vars

\* --------------------------------------------------- claims on the codec
Base(format) ==
    CASE format = "hex" -> 16 [] format = "decimal" -> 10 [] OTHER -> 2

\* The units of a hex or decimal text, and of a binary text its chunks.
UnitsOf(text, format) ==
    IF format = "binary" THEN Chunks(SelectSeq(text, NotSpace))
    ELSE Split(text)

\* A template of well-formed units: two hex digits, a decimal number in
\* 0..255, eight bits.
WellFormedTemplate(text, format) ==
    LET units == UnitsOf(text, format)
    IN  \A i \in 1..Len(units) :
            /\ ParseInt(units[i], Base(format)) \in 0..255
            /\ format = "hex" => Len(units[i]) = 2
            /\ format = "binary" => Len(units[i]) = 8

\* The byte values a text of units stands for.
ValuesOf(text, format) ==
    LET units == UnitsOf(text, format)
    IN  [i \in 1..Len(units) |-> ParseInt(units[i], Base(format))]

\* C22: the bytes of a well-formed hex, decimal or binary template, rendered
\* in the format of the template, read as the byte values of the template;
\* the bytes of an ascii template are the characters of its text.
C22_RoundTrip ==
    result.called
        => IF seq.send_format = "ascii"
           THEN (\A i \in 1..Len(seq.send_data) : Ord(seq.send_data[i]) <= 127)
                    => result.bytes = [i \in 1..Len(seq.send_data) |->
                                          Ord(seq.send_data[i])]
           ELSE WellFormedTemplate(seq.send_data, seq.send_format)
                    => ValuesOf(result.text, seq.send_format)
                           = ValuesOf(seq.send_data, seq.send_format)

\* A text with no wildcard that compiles to a pattern of fixed units.
FixedUnits(s) ==
    /\ s.pattern.ok
    /\ "?" \notin Range(s.receive_data)
    /\ \A i \in 1..Len(s.pattern.items) :
          s.pattern.items[i].kind = "lit" /\ ~s.pattern.items[i].opt

\* C28: a text without wildcards that compiles to a valid pattern of units
\* u1..un encodes, as a response, to exactly the bytes u1..un.
C28_EncodeAgreesWithCompile ==
    (result.called /\ FixedUnits(seq))
        => result.bytes = [i \in 1..Len(seq.pattern.items) |->
                              seq.pattern.items[i].val]

\* ==========================================================================
\* The error paths of the receive loop (src/serial_comm/receiver.py, lines
\* 143-149 and 176-196)
\* ==========================================================================
\* ------------------------------------------------------------------ bounds
MaxErrors == 1

\* A variant of lines 192-196 that lets the exception of read() leave the
\* loop: it ends at line 198.
LoopReadError_Fatal ==
    /\ th.loop.pc = "read"
    /\ errs.read < MaxErrors
    /\ errs' = [errs EXCEPT !.read = @ + 1]
    /\ th' = [th EXCEPT !.loop.pc = "ended", !.loop.current_time = 0]
    /\ UNCHANGED <<port, ui, rl, seqvars, patvars, tmvars, appvars,
                   running, buffer, last_receive_time, message_timeout,
                   connected, now, nread, delivered, last_arrival, stamp, hist>>

\* line 178: self.connection.read() raises; the exception is caught at line
\* 192, before anything was added to the buffer.
LoopReadError ==
    /\ th.loop.pc = "read"
    /\ errs.read < MaxErrors
    /\ errs' = [errs EXCEPT !.read = @ + 1]
    /\ th' = [th EXCEPT !.loop.pc = "backoff", !.loop.current_time = 0]
    /\ UNCHANGED <<port, ui, rl, seqvars, patvars, tmvars, appvars,
                   running, buffer, last_receive_time, message_timeout,
                   connected, now, nread, delivered, last_arrival, stamp, hist>>

\* lines 193-196: the error is printed, time.sleep(0.01), and the loop goes
\* round.
LoopBackoff ==
    /\ th.loop.pc = "backoff"
    /\ th' = [th EXCEPT !.loop.pc = "while"]
    /\ UNCHANGED <<auxvars, seqvars, patvars, tmvars, appvars,
                   running, buffer, last_receive_time, message_timeout,
                   connected, now, nread, delivered, last_arrival, stamp, hist>>

\* line 144: self.on_frame(message) raises, having been called with message.
SendCallbackError(t) ==
    /\ th[t].pc = "s_cb"
    /\ Len(errs.callback) < MaxErrors
    /\ errs' = [errs EXCEPT !.callback = Append(@, th[t].message)]
    /\ delivered' = Append(delivered, th[t].message)
    /\ th' = [th EXCEPT ![t].pc = "s_exc", ![t].message = <<>>]
    /\ UNCHANGED <<port, ui, rl, seqvars, patvars, tmvars, appvars,
                   running, buffer, last_receive_time, message_timeout,
                   connected, now, nread, last_arrival, stamp, hist>>

\* lines 146-149: except Exception: the error is printed and the routine
\* goes on to line 151.
SendExcept(t) ==
    /\ th[t].pc = "s_exc"
    /\ th' = [th EXCEPT ![t].pc = "s_clear"]
    /\ UNCHANGED <<auxvars, seqvars, patvars, tmvars, appvars,
                   running, buffer, last_receive_time, message_timeout,
                   connected, now, nread, delivered, last_arrival, stamp, hist>>

LoopFault ==
    \/ LoopReadError \/ LoopBackoff
    \/ SendCallbackError("loop") \/ SendExcept("loop")

\* The receiver whose read() and whose callback may raise, started and
\* never stopped: the loop ends only when the connection is lost.
NextErr ==
    LoopStep \/ LoopFault \/ Connect \/ Disconnect \/ Start \/ Tick

SpecErr == Init /\ [][NextErr]_vars

FairSpecErr ==
    SpecErr /\ WF_vars(LoopStep \/ LoopFault) /\ WF_vars(Tick)

\* --------------------------------------------------- claims on the errors
\* C29: an exception of read() leaves the buffer, the last arrival time and
\* running as they were, and after the backoff the loop goes round; an
\* exception of the callback is caught and the loop goes on to clear the
\* buffer; the loop leaves only when running is false or the connection is
\* not connected, and a byte buffered while the loop runs is still
\* delivered in a Message.
C29_ErrorsDoNotEndLoop ==
    /\ [][/\ (th.loop.pc = "read" /\ th'.loop.pc = "backoff")
                => UNCHANGED <<buffer, last_receive_time, running>>
          /\ LoopExits => (~running \/ ~connected)]_vars
    /\ (th.loop.pc = "backoff") ~> (th.loop.pc = "while")
    /\ (th.loop.pc = "s_exc") ~> (th.loop.pc = "s_clear")
    /\ \A k \in 1..MaxBytes :
          (k \in Range(buffer) /\ ThreadAlive)
              ~> (Delivered(k) \/ ~running \/ ~connected \/ ClockOut)

\* C29's case: read() raised and the callback raised on a Message, the loop
\* is still running, and a byte read after that Message has been delivered
\* in a Message of its own.
C29_Witness ==
    /\ errs.read >= 1 /\ errs.callback # <<>>
    /\ ThreadAlive /\ running /\ connected
    /\ \E i \in 1..Len(delivered) :
          /\ delivered[i] \notin Range(errs.callback)
          /\ \A j \in 1..Len(errs.callback[1]) :
                delivered[i][1] > errs.callback[1][j]

\* ------------------------------------- the session: connect and disconnect
\* The records of the session's handler: "a" answers AA after a delay, "b"
\* answers BB at once.
SessionConfigs ==
    {[name |-> "a", receive |-> [data |-> TextAA],
      send |-> [data |-> <<"4", "1">>, format |-> "hex"], delay |-> Num(1)],
     [name |-> "b", receive |-> [data |-> <<"B", "B">>],
      send |-> [data |-> <<"4", "2">>, format |-> "hex"]]}

InitSessionApp ==
    /\ \E n \in 1..MaxSeqs : \E configs \in [1..n -> SessionConfigs] :
          /\ sequences = load_sequences(<<>>, configs)
          /\ ld = FirstLoad(configs, sequences)
    /\ checked = [called |-> FALSE]
    /\ tog = [called |-> FALSE]
    /\ timers = {}
    /\ written = <<>>
    /\ handled = <<>>

InitSession == NoRx /\ InitSessionApp /\ NoPat /\ NoTm /\ NoAux

\* The application while the user connects and disconnects; the frames are
\* AA and BB.
NextSession ==
    \/ \E frame_bytes \in {<<170>>, <<187>>} : OnFrameReceived(frame_bytes)
    \/ TimerFired
    \/ ConnectSerial
    \/ DisconnectSerial
    \/ Tick

SpecSession == InitSession /\ [][NextSession]_vars

\* C26: a timer scheduled for a delayed response and not yet fired when the
\* application disconnects (receiver.stop() and disconnect) stays scheduled;
\* when it fires, after the stop or after a reconnect, the response is
\* encoded and handed to write, and the bytes are sent exactly when the
\* connection is connected at that moment.
C26_TimerSurvivesStop ==
    \A m \in 1..Len(handled) :
        LET h == handled[m]
        IN  (h.cut /\ h.idx # 0) =>
                LET sequence == sequences[h.idx]
                    response == get_response_bytes(sequence)
                IN  /\ ~h.fired =>
                          TimersOf(m) = {[m |-> m, sequence |-> sequence,
                                          due |-> h.at + sequence.delay]}
                    /\ (h.fired /\ response # <<>>) =>
                          \E k \in WritesOf(m) :
                              /\ written[k].bytes = response
                              /\ written[k].sent = h.live

\* C26's case: a timer was pending at a disconnect, the connection was
\* connected again, and the timer fired then and its response was sent.
C26_Witness ==
    \E m \in 1..Len(handled) :
        /\ handled[m].cut /\ handled[m].fired /\ handled[m].live
        /\ \E k \in WritesOf(m) : written[k].sent

\* C27: of two frames that match sequences with delay zero, the response of
\* the earlier frame is written before the response of the later one.  (That
\* a later frame with a shorter delay can be answered first is the reachable
\* state of C27_Witness.)
C27_ZeroDelayInOrder ==
    \A a, b \in 1..Len(handled) :
        (/\ a < b
         /\ handled[a].idx # 0 /\ sequences[handled[a].idx].delay = 0
         /\ handled[b].idx # 0 /\ sequences[handled[b].idx].delay = 0)
            => \A i \in WritesOf(a) : \A j \in WritesOf(b) : i < j

\* C27's case: frame A matched a sequence with delay dA, the later frame B a
\* sequence with delay dB < dA, and B's response was written before A's.
C27_Witness ==
    \E a, b \in 1..Len(handled) :
        /\ a < b
        /\ handled[a].idx # 0 /\ handled[b].idx # 0
        /\ sequences[handled[b].idx].delay < sequences[handled[a].idx].delay
        /\ \E i \in WritesOf(a) : \E j \in WritesOf(b) : j < i

\* ==========================================================================
\* A reload and a check at the same time (src/sequence_handler.py, lines
\* 127-160)
\* ==========================================================================
\* load_sequences and check_data statement by statement, each on a thread of
\* its own, on the one list self.sequences.

\* The records of a load: "a" receives AA, "b" receives BB, and a record "a"
\* whose ReceiveSequence raises.
ReloadConfigs ==
    {[name |-> "a", receive |-> [data |-> TextAA]],
     [name |-> "b", receive |-> [data |-> <<"B", "B">>]],
     [name |-> "a", receive |-> [data |-> TextAA], delay |-> Str]}

ReloadLists == UNION {[1..n -> ReloadConfigs] : n \in 0..MaxSeqs}

InitReload ==
    /\ \E configs \in ReloadLists : sequences = load_sequences(<<>>, configs)
    /\ ld = [n |-> 1]
    /\ checked = [called |-> FALSE]
    /\ tog = [called |-> FALSE]

\* line 129: self.sequences.clear(), on the list the handler holds.  rl keeps
\* the records still to load, the collection before the load (old) and the
\* collection the load will leave (new); a check in progress notes new as
\* one more complete collection of its time.
BeginLoad(configs) ==
    /\ rl.load.pc = "idle"
    /\ ld.n < MaxLoads
    /\ sequences' = <<>>
    /\ ld' = [n |-> ld.n + 1]
    /\ LET new == load_sequences(sequences, configs)
       IN  rl' = [load |-> [pc |-> "append", todo |-> configs,
                            old |-> sequences, new |-> new],
                  chk |-> IF rl.chk.pc = "iter"
                          THEN [rl.chk EXCEPT !.views = @ \cup {new}]
                          ELSE rl.chk]
    /\ UNCHANGED <<errs, port, ui, checked, tog, rxvars, patvars, tmvars,
                   appvars>>

\* lines 139-141, one round of the for loop: ReceiveSequence(seq_config) and
\* self.sequences.append(sequence); an exception ends the load (line 145).
LoadAppend ==
    /\ rl.load.pc = "append"
    /\ IF rl.load.todo = <<>> \/ Raises(rl.load.todo[1])
       THEN /\ rl' = [rl EXCEPT !.load = [pc |-> "idle", todo |-> <<>>]]
            /\ UNCHANGED sequences
       ELSE /\ sequences' = Append(sequences, ReceiveSequence(rl.load.todo[1]))
            /\ rl' = [rl EXCEPT !.load.todo = Tail(@)]
    /\ UNCHANGED <<errs, port, ui, checked, tog, ld, rxvars, patvars, tmvars,
                   appvars>>

\* line 157: for sequence in self.sequences, the iterator at its start.  rl
\* keeps the complete collections of the time of the check (views).
BeginCheck(data) ==
    /\ rl.chk.pc = "idle"
    /\ rl' = [rl EXCEPT !.chk =
                 [pc |-> "iter", i |-> 1, data |-> data,
                  views |-> IF rl.load.pc = "idle" THEN {sequences}
                            ELSE {rl.load.old, rl.load.new}]]
    /\ UNCHANGED <<errs, port, ui, seqvars, rxvars, patvars, tmvars, appvars>>

\* lines 157-160, one round: the iterator yields the next element of the
\* list as it is now, or ends; ret is <<>> for None.
CheckNext ==
    /\ rl.chk.pc = "iter"
    /\ LET i == rl.chk.i
           done(ret) == [pc |-> "done", data |-> rl.chk.data, ret |-> ret,
                         views |-> rl.chk.views]
       IN  rl' = [rl EXCEPT !.chk =
                     IF i > Len(sequences) THEN done(<<>>)
                     ELSE IF matches(sequences[i], rl.chk.data)
                          THEN done(<<sequences[i]>>)
                          ELSE [rl.chk EXCEPT !.i = i + 1]]
    /\ UNCHANGED <<errs, port, ui, seqvars, rxvars, patvars, tmvars, appvars>>

InitReloader ==
    NoRx /\ InitReload /\ NoPat /\ NoTm /\ NoApp /\ NoAux

NextReload ==
    \/ \E configs \in ReloadLists : BeginLoad(configs)
    \/ LoadAppend
    \/ \E data \in {<<170>>, <<187>>} : BeginCheck(data)
    \/ CheckNext

SpecReload == InitReloader /\ [][NextReload]_vars

\* What check_data returns on a collection: <<>> for None.
Returned(seqs, data) ==
    LET i == check_data(seqs, data)
    IN  IF i = 0 THEN <<>> ELSE <<seqs[i]>>

\* C23: a check that runs while a reload runs returns what it returns on the
\* complete collection from before the reload or on the complete collection
\* after it.
C23_CheckSeesOneCollection ==
    rl.chk.pc = "done"
        => \E v \in rl.chk.views : rl.chk.ret = Returned(v, rl.chk.data)

\* ==========================================================================
\* From the port to the response: the receive loop, the handler and the
\* application together (receiver.py lines 138-203, app.py lines 525-559)
\* ==========================================================================
\* The loop thread hands a Message to the application with call_from_thread
\* (app.py line 559), which runs _on_frame_received on the application's
\* thread and returns to the loop thread when it has returned.

\* The bytes fed to the port, "PINGPING"; byte k of the stream is Stream[k].
Stream == <<80, 73, 78, 71, 80, 73, 78, 71>>

Content(ids) == [i \in 1..Len(ids) |-> Stream[ids[i]]]

\* The rule: receive hex 50 49 4E 47, send hex 41 43 4B, with no delay or
\* with a delay.
PipeRule ==
    [name |-> "ping",
     receive |-> [data |-> <<"5", "0", " ", "4", "9", " ", "4", "E", " ",
                             "4", "7">>, format |-> "hex"],
     send |-> [data |-> <<"4", "1", " ", "4", "3", " ", "4", "B">>,
               format |-> "hex"]]

\* The application connected and the receiver started, nothing received yet.
InitPipe ==
    /\ running = TRUE
    /\ buffer = <<>>
    /\ last_receive_time = 0
    /\ message_timeout \in 1..MaxTimeout
    /\ connected = TRUE
    /\ th = [loop |-> Local("while"), main |-> Local("idle")]
    /\ now = 1
    /\ nread = 0
    /\ delivered = <<>>
    /\ last_arrival = 0
    /\ stamp = [k \in 1..MaxBytes |-> 0]
    /\ hist = [stops |-> 0, buf |-> <<>>, sent |-> <<>>,
               interfered |-> FALSE, rx |-> FALSE, norx |-> FALSE]
    /\ \E config \in {PipeRule, PipeRule @@ [delay |-> Num(1)]} :
          /\ sequences = load_sequences(<<>>, <<config>>)
          /\ ld = FirstLoad(<<config>>, sequences)
    /\ checked = [called |-> FALSE]
    /\ tog = [called |-> FALSE]

InitPipeline == InitPipe /\ NoPat /\ NoTm /\ NoApp /\ NoAux

\* The next n bytes of the stream arrive at the port, less than the timeout
\* after the bytes before them.
Arrive(n) ==
    /\ port.fed + n <= Len(Stream)
    /\ port.fed = 0 \/ now - port.at < message_timeout
    /\ port' = [waiting |-> port.waiting
                                \o [i \in 1..n |-> port.fed + i],
                fed |-> port.fed + n, at |-> now]
    /\ UNCHANGED <<errs, ui, rl, rxvars, seqvars, patvars, tmvars, appvars>>

\* line 178: data = self.connection.read(): the bytes waiting at the port
\* (connection.py lines 71-77), b'' when there is none.
LoopReadPort ==
    /\ th.loop.pc = "read"
    /\ IF connected /\ port.waiting # <<>>
       THEN /\ th' = [th EXCEPT !.loop.pc = "ext",
                                !.loop.data = port.waiting]
            /\ port' = [port EXCEPT !.waiting = <<>>]
            /\ nread' = nread + Len(port.waiting)
            /\ last_arrival' = port.at
       ELSE /\ th' = [th EXCEPT !.loop.pc = "while", !.loop.current_time = 0]
            /\ UNCHANGED <<port, nread, last_arrival>>
    /\ UNCHANGED <<errs, ui, rl, seqvars, patvars, tmvars, appvars,
                   running, buffer, last_receive_time, message_timeout,
                   connected, now, delivered, stamp, hist>>

\* receiver.py line 144, app.py line 559: on_frame(message) is
\* call_from_thread(self._on_frame_received, frame_bytes); the loop thread
\* waits for the application's thread to run the call.
CallFromThread ==
    /\ th.loop.pc = "s_cb"
    /\ ui' = [ui EXCEPT !.call = <<th.loop.message>>]
    /\ delivered' = Append(delivered, th.loop.message)
    /\ th' = [th EXCEPT !.loop.pc = "s_wait"]
    /\ UNCHANGED <<errs, port, rl, seqvars, patvars, tmvars, appvars,
                   running, buffer, last_receive_time, message_timeout,
                   connected, now, nread, last_arrival, stamp, hist>>

\* app.py lines 525-544 on the application's thread, up to the call of
\* _send_sequence_response of line 544.
AppOnFrame ==
    /\ ui.pc = "idle"
    /\ ui.call # <<>>
    /\ LET frame_bytes == Content(ui.call[1])
           m == Len(handled) + 1
           i == check_data(sequences, frame_bytes)
       IN  /\ handled' = Append(handled, [data |-> frame_bytes, idx |-> i,
                                          at |-> now, fired |-> FALSE,
                                          cut |-> FALSE, live |-> FALSE])
           /\ timers' = IF i # 0 /\ sequences[i].delay > 0
                        THEN timers \cup
                                 {[m |-> m, sequence |-> sequences[i],
                                   due |-> now + sequences[i].delay]}
                        ELSE timers
           /\ ui' = [ui EXCEPT !.m = m,
                               !.pc = IF i # 0 /\ sequences[i].delay = 0
                                      THEN "send" ELSE "ret"]
    /\ UNCHANGED <<errs, port, rl, rxvars, seqvars, patvars, tmvars,
                   written>>

\* app.py lines 546-555: _send_sequence_response, with serial_conn.write and
\* its flush (connection.py lines 96-99), on the application's thread.
AppSend ==
    /\ ui.pc = "send"
    /\ written' = send_sequence_response(sequences[handled[ui.m].idx], ui.m)
    /\ ui' = [ui EXCEPT !.pc = "ret"]
    /\ UNCHANGED <<errs, port, rl, rxvars, seqvars, patvars, tmvars,
                   timers, handled>>

\* _on_frame_received returns: call_from_thread returns on the loop thread.
AppReturn ==
    /\ ui.pc = "ret"
    /\ ui' = [pc |-> "idle", call |-> <<>>, m |-> 0]
    /\ th' = [th EXCEPT !.loop.pc = "s_clear", !.loop.message = <<>>]
    /\ UNCHANGED <<errs, port, rl, seqvars, patvars, tmvars, appvars,
                   running, buffer, last_receive_time, message_timeout,
                   connected, now, nread, delivered, last_arrival, stamp,
                   hist>>

NextPipe ==
    \/ LoopWhile \/ LoopConn \/ LoopTime \/ LoopCheck \/ LoopTimeout
    \/ LoopReadPort \/ LoopExtend \/ LoopStamp
    \/ SendIf("loop") \/ SendCopy("loop") \/ CallFromThread
    \/ SendClear("loop") \/ SendReset("loop")
    \/ AppOnFrame \/ AppSend \/ AppReturn \/ TimerFired
    \/ \E n \in {4, 8} : Arrive(n)
    \/ Tick

SpecPipe == InitPipeline /\ [][NextPipe]_vars

\* ------------------------------------------------- claims on the pipeline
\* Every byte of the stream was fed and read, and the loop and the
\* application have nothing left to do with them.
PipeIdle ==
    /\ port.fed = Len(Stream) /\ port.waiting = <<>> /\ nread = Len(Stream)
    /\ buffer = <<>>
    /\ th.loop.pc \in {"while", "conn", "time", "chk", "read"}
    /\ ui.pc = "idle" /\ ui.call = <<>>

\* C21: with the rule without delay, when the eight bytes were fed with gaps
\* below the timeout and everything has been handled, exactly one Message
\* was delivered, the eight bytes, check returned the rule, exactly one
\* write was made, of the bytes 41 43 4B, and no timer was scheduled.
C21_PingAck ==
    (PipeIdle /\ sequences[1].delay = 0)
        => /\ delivered = <<[k \in 1..Len(Stream) |-> k]>>
           /\ Len(handled) = 1 /\ handled[1].idx = 1
           /\ Len(written) = 1 /\ written[1].bytes = <<65, 67, 75>>
           /\ timers = {}

\* C24: the loop thread never waits in its callback while the application's
\* thread writes a response to the connection.
C24_LoopNeverWaitsForWrite ==
    ~(/\ th.loop.pc = "s_wait"
      /\ ui.pc = "send"
      /\ get_response_bytes(sequences[handled[ui.m].idx]) # <<>>)

\* ==========================================================================
\* Further claims on the handler
\* ==========================================================================
\* The sequences that carry the name of a sequence before them.
LaterDuplicates(seqs) ==
    {i \in 1..Len(seqs) : \E j \in 1..(i - 1) : seqs[j].name = seqs[i].name}

\* C40: when several sequences share a name, toggle(name) flips the active
\* flag of the first of them in configuration order and leaves every other
\* sequence as it was; after any number of toggles a sequence that carries
\* the name of a sequence before it has the active value of its record.
C40_ToggleFlipsFirstOfName ==
    /\ tog.called
          => \A i \in 1..Len(sequences) :
                IF i = tog.idx
                THEN sequences[i] = [tog.pre[i] EXCEPT
                                        !.active = ~tog.pre[i].active]
                ELSE sequences[i] = tog.pre[i]
    /\ tog.called /\ tog.idx # 0
          => \A j \in 1..(tog.idx - 1) : sequences[j].name # tog.name
    /\ \A i \in LaterDuplicates(sequences) :
          sequences[i].active = Get(ld.configs[i], "active", TRUE)

\* C40's case: a name that two sequences carry was toggled twice in a row,
\* and the second of the two sequences is active as loaded while the first
\* one was inactive between the two calls.
C40_Witness ==
    /\ tog.called /\ tog.idx # 0 /\ tog.prev.called
    /\ tog.prev.name = tog.name
    /\ \E i \in LaterDuplicates(sequences) :
          /\ sequences[i].name = tog.name
          /\ sequences[i].active
          /\ ~tog.pre[tog.idx].active

\* ==========================================================================
\* Further claims on the response
\* ==========================================================================
\* C38: a 'tx' event is logged for a response only if its bytes were written
\* to the connection: a write that the connection refused, because it was
\* not connected, logs no 'tx' event.
C38_TxOnlyIfWritten ==
    \A k \in 1..Len(written) : written[k].tx => written[k].sent

\* ==========================================================================
\* The handler of a running application: frames, timers, toggles and reloads
\* (src/ui/app.py, lines 525-555; src/sequence_handler.py, lines 127-179)
\* ==========================================================================
\* Every record receives hex AA.
LiveRecord(name, data) ==
    [name |-> name, receive |-> [data |-> <<"A", "A">>],
     send |-> [data |-> data]]

\* The record lists of the file: one record with a delay, one with a
\* negative delay, and the two of them, which carry one name.
LiveLists ==
    {<<LiveRecord("a", <<"4", "1">>) @@ [delay |-> Num(1)]>>,
     <<LiveRecord("a", <<"4", "2">>) @@ [delay |-> Num(0 - 1)]>>,
     <<LiveRecord("a", <<"4", "1">>) @@ [delay |-> Num(1)],
       LiveRecord("a", <<"4", "2">>) @@ [delay |-> Num(0 - 1)]>>}

InitLiveApp ==
    /\ \E configs \in LiveLists :
          /\ sequences = load_sequences(<<>>, configs)
          /\ ld = FirstLoad(configs, sequences)
    /\ checked = [called |-> FALSE]
    /\ tog = [called |-> FALSE]
    /\ timers = {}
    /\ written = <<>>
    /\ handled = <<>>

\* The application connected (_connect_serial); the loop thread is not part
\* of this specification.
InitLiveRx ==
    /\ running = TRUE
    /\ buffer = <<>>
    /\ last_receive_time = 0
    /\ message_timeout = 1
    /\ connected = TRUE
    /\ th = [loop |-> Local("none"), main |-> Local("idle")]
    /\ now = 1
    /\ nread = 0
    /\ delivered = <<>>
    /\ last_arrival = 0
    /\ stamp = [k \in 1..MaxBytes |-> 0]
    /\ hist = [stops |-> 0, buf |-> <<>>, sent |-> <<>>,
               interfered |-> FALSE, rx |-> FALSE, norx |-> FALSE]

InitLive == InitLiveRx /\ InitLiveApp /\ NoPat /\ NoTm /\ NoAux

\* Every frame is AA.
NextLive ==
    \/ OnFrameReceived(<<170>>)
    \/ TimerFired
    \/ ToggleSequence("a")
    \/ \E configs \in LiveLists : ReloadSequences(configs)
    \/ Tick

SpecLive == InitLive /\ [][NextLive]_vars

\* C33: every sequence of the collection has a delay that is not negative,
\* whatever number the delay of its record is.
C33_DelayNotNegative ==
    \A i \in 1..Len(sequences) : sequences[i].delay >= 0

\* C32: while no load runs, a step changes nothing of the collection but the
\* active flag of one sequence: a toggle(name) flips the active flag of one
\* sequence of that name and leaves its other fields, the other sequences,
\* the order and the length as they were; a frame handled (check_data) and a
\* response encoded and written (get_response_bytes) change no sequence.
C32_OnlyActiveChanges ==
    [][ld' = ld =>
          LET changed == {i \in 1..Len(sequences) :
                              sequences'[i] # sequences[i]}
          IN  /\ Len(sequences') = Len(sequences)
              /\ \A i \in changed :
                    sequences'[i] = [sequences[i] EXCEPT
                                        !.active = ~sequences[i].active]
              /\ changed # {} =>
                    /\ tog'.called /\ tog'.pre = sequences
                    /\ changed = {tog'.idx}
                    /\ sequences[tog'.idx].name = tog'.name
              /\ (handled' # handled \/ written' # written) =>
                    sequences' = sequences]_vars

\* C32's case: on one load, a sequence was toggled, a frame was checked and
\* matched, and a response was encoded and written.
C32_Witness ==
    /\ ld.n = 1
    /\ tog.called /\ tog.idx # 0
    /\ \E m \in 1..Len(handled) : handled[m].idx # 0 /\ WritesOf(m) # {}

\* C39: a delayed response is bound to the sequence matched: the timer holds
\* the sequence check_data returned and is due the sequence's delay after the
\* match; a toggle and a reload leave every pending timer and every write as
\* they are; and a timer that fires encodes the response of the sequence it
\* holds and hands it to write, whatever the collection holds by then.
C39_ResponseBoundAtMatch ==
    [][/\ \A t \in timers' \ timers :
             LET i == handled'[t.m].idx
             IN  /\ i # 0
                 /\ t.sequence = sequences[i]
                 /\ t.due = now + sequences[i].delay
       /\ (sequences' # sequences \/ ld' # ld \/ tog' # tog) =>
             (timers' = timers /\ written' = written)
       /\ \A t \in timers \ timers' :
             LET response_bytes == get_response_bytes(t.sequence)
             IN  /\ now >= t.due
                 /\ response_bytes # <<>>
                 /\ written' = Append(written,
                                      [m |-> t.m, bytes |-> response_bytes,
                                       at |-> now, sent |-> connected,
                                       tx |-> TRUE])]_vars

\* C39's case: the only sequence of the collection matched frame 1 and was
\* toggled inactive, so that frame 2, the same bytes, matched nothing; the
\* timer of frame 1 fired later than that and its response was sent.
C39_Witness ==
    /\ ld.n = 1 /\ Len(sequences) = 1
    /\ Len(handled) = 2
    /\ handled[1].idx # 0 /\ handled[1].fired
    /\ handled[2].data = handled[1].data /\ handled[2].idx = 0
    /\ \E k \in WritesOf(1) :
          written[k].at > handled[2].at /\ written[k].sent

\* ==========================================================================
\* Further claims on the timeout
\* ==========================================================================
\* C37, as the claim states it: whenever the timeout is in auto mode it
\* equals clamp(3 * 10 / bit rate, 5 ms, 200 ms) for the bit rate configured.
C37_AutoAlwaysDerived ==
    auto_timeout
        => /\ baud_rate # 0
           /\ message_timeout = Clamp(30000000 \div baud_rate, 5000, 200000)

\* C37, amended: whenever the timeout is in auto mode, it is the d of
\* set_timeout(d, auto = true) when that was the last call on the timeout,
\* and otherwise clamp(3 * 10 / bit rate, 5 ms, 200 ms) for the bit rate
\* configured.
C37_AutoDerivedSinceLastRate ==
    auto_timeout
        => IF tmcall.op = "set_timeout"
           THEN message_timeout = tmcall.timeout
           ELSE /\ baud_rate # 0
                /\ message_timeout
                       = Clamp(30000000 \div baud_rate, 5000, 200000)

\* C37's case: after a set_timeout(d, auto = true) with a d that no bit rate
\* derives, a set_baud_rate has recomputed the timeout.
C37_Witness ==
    /\ auto_timeout
    /\ tmcall.op = "set_baud_rate" /\ tmcall.auto
    /\ tmcall.before \in Timeouts
    /\ message_timeout # tmcall.before

\* ==========================================================================
\* The timeout changed while the receiver runs (src/serial_comm/receiver.py,
\* lines 81-104 and 154-203)
\* ==========================================================================
\* In this specification a time is a whole number of microseconds, and the
\* clock runs for MaxTime of them.  The receive loop runs on its thread;
\* set_timeout and set_baud_rate are called on the caller's thread.
NextTune ==
    \/ LoopStep
    \/ Connect \/ Disconnect \/ Start
    \/ \E timeout \in 1..(MaxTimeout + 1) : \E auto \in BOOLEAN :
          set_timeout(timeout, auto)
    \/ set_baud_rate(75 * 2^MaxRateExp)
    \/ Tick

SpecTune == Init /\ [][NextTune]_vars

\* C31: set_timeout and set_baud_rate leave the buffer and the last arrival
\* time as they are and deliver no Message, while the receive loop runs and
\* while it does not.
C31_TimeoutChangeKeepsBuffer ==
    [][tmcall' # tmcall =>
          /\ buffer' = buffer
          /\ last_receive_time' = last_receive_time
          /\ delivered' = delivered
          /\ th' = th]_vars

\* C31's case: the timeout was set while the loop ran with bytes in the
\* buffer, and the buffer and its arrival time are as they were.
C31_Witness ==
    /\ tmcall.op = "set_timeout"
    /\ tmcall.buf # <<>> /\ buffer = tmcall.buf
    /\ last_receive_time > 0
    /\ running /\ ThreadAlive

\* ==========================================================================
\* Further claims on start() and stop()
\* ==========================================================================
\* C34: every Message the callback was called with is non-empty, however the
\* flush of stop() and the flush of the loop's timeout interleave.
C34_DeliveredNonEmpty ==
    \A i \in 1..Len(delivered) : delivered[i] # <<>>

\* C36: whenever running is true and no start() or stop() is under way, a
\* receive loop is alive; when the loop has exited because the connection
\* was lost, running is false, so that a later start() begins a new loop.
C36_RunningTracksLoop ==
    (running /\ th.main.pc = "idle") => ThreadAlive

\* ------------------------------------------------- start() after a stop()
\* Two threads of _receive_loop on the one receiver: th.loop, and th.old,
\* the thread of the start() before the last one.  The steps of the receive
\* loop are written for th.loop.
LoopThreads == {"loop", "old"}

LoopsAlive == {t \in LoopThreads : th[t].pc \notin {"none", "ended"}}

\* SerialReceiver.__init__ on a connection that is connected and stays so;
\* no thread yet.
InitRunsRx ==
    /\ running = FALSE
    /\ buffer = <<>>
    /\ last_receive_time = 0
    /\ message_timeout \in 1..MaxTimeout
    /\ connected = TRUE
    /\ th = [loop |-> Local("none"), main |-> Local("idle"),
             old |-> Local("none")]
    /\ now = 1
    /\ nread = 0
    /\ delivered = <<>>
    /\ last_arrival = 0
    /\ stamp = [k \in 1..MaxBytes |-> 0]
    /\ hist = [stops |-> 0, buf |-> <<>>, sent |-> <<>>,
               interfered |-> FALSE, rx |-> FALSE, norx |-> FALSE]

InitRuns == InitRunsRx /\ NoSeq /\ NoPat /\ NoTm /\ NoApp /\ NoAux

\* start(), lines 108-118, when a thread was started before: self.thread
\* becomes a new thread, whatever the thread before is doing.  Two threads
\* are modelled: the second start() is the last one.
Restart ==
    /\ th.main.pc = "idle"
    /\ ~running
    /\ th.loop.pc # "none"
    /\ th.old.pc = "none"
    /\ running' = TRUE
    /\ buffer' = <<>>
    /\ last_receive_time' = 0
    /\ th' = [th EXCEPT !.old = th.loop, !.loop = Local("while")]
    /\ UNCHANGED <<auxvars, seqvars, patvars, tmvars, appvars,
                   message_timeout, connected, now, nread, delivered,
                   last_arrival, stamp, hist>>

\* The scheduler turns to the other thread of _receive_loop: the steps of
\* the receive loop are the steps of that thread from here on.
Switch ==
    /\ th.old.pc \notin {"none", "ended"}
    /\ th' = [th EXCEPT !.loop = th.old, !.old = th.loop]
    /\ UNCHANGED <<auxvars, seqvars, patvars, tmvars, appvars,
                   running, buffer, last_receive_time, message_timeout,
                   connected, now, nread, delivered, last_arrival, stamp,
                   hist>>

NextRuns ==
    \/ LoopStep
    \/ Start \/ Restart \/ Switch
    \/ StopRun \/ StopIf \/ StopJoin
    \/ SendIf("main") \/ SendCopy("main") \/ SendCallback("main")
    \/ SendClear("main") \/ SendReset("main")
    \/ Tick

SpecRuns == InitRuns /\ [][NextRuns]_vars

\* C35: at most one receive loop is executing at any time, whatever start()
\* and stop() calls were made, also when the join of stop() timed out.
C35_OneLoopAtATime ==
    Cardinality(LoopsAlive) <= 1

====
